---- MODULE Spec2Model ----
(***************************************************************************)
(* Key extraction pipeline of chatlog (darwin, profile v4):                *)
(*   internal/wechat/key/darwin/v4.go   V4Extractor (Extract, worker, ...) *)
(*   internal/wechat/decrypt/validator.go   Validator                      *)
(*                                                                         *)
(* Candidate keys are identified by name: hex.EncodeToString is injective  *)
(* on byte strings, so two candidates have the same hex string exactly     *)
(* when they are the same bytes; the model keeps one name per byte value.  *)
(***************************************************************************)
EXTENDS Integers, Sequences, FiniteSets, Bags, TLC

\* ---------------------------------------------------------------- bounds
NWorkers == 2
MaxChunks == 2
MaxExtra == 1
MaxCalls == 3
MaxRuns == 2

\* ------------------------------------------------------ program constants
MemChanCap == 200
ResultChanCap == 1
PrimaryIdx == -1
Stride == 8
PollInterval == 8 * 1024

VARIABLES
    \* Validator (validator.go)
    version,              \* profile the validator was built for
    nExtra,               \* len(extraDBFiles)
    totalDBCount,
    matchedDBs,           \* keys of the matchedDBs sync.Map
    matchedCount,
    vc,                   \* per goroutine: the ValidateDerivedKey call in progress
    ncalls,               \* calls started by direct callers of the validator
    \* Inputs of Extract
    procStatus,           \* proc.Status
    sipDisabled,          \* glance.IsSIPDisabled()
    validatorSet,         \* e.validator != nil
    parentCancelled,      \* ctx.Done() of the caller's context
    \* V4Extractor sync.Maps (key sets)
    processedDataKeys,
    processedDerivedKeys,
    processedImgKeys,
    foundDerivedKeys,
    \* Extract
    epc,                  \* "idle" | "select" | "returned"
    ret,                  \* returned (dataKey, imgKey, err)
    retPath,              \* which return statement was taken
    retFound,             \* foundDerivedKeys at the moment of the return
    finalRawDataKey,
    finalImgKey,
    searchCancelled,      \* cancel() of searchCtx was called
    created,              \* channels made, goroutines started
    memoryChannel,
    memClosed,
    resultChannel,
    resClosed,
    ppc,                  \* producer goroutine: "idle" | "running" | "done"
    perr,                 \* findMemory returned an error
    emitted,              \* chunks sent so far
    \* worker goroutines
    wpc,
    wmem,                 \* the chunk being processed
    wpos,                 \* window (or anchor) index in the chunk
    wci,                  \* offset index within the anchor
    rawDataKey,
    imgKey,
    \* history: what happened to each chunk's derived-key scan
    dscan,
    recvBy,               \* the workers that received each chunk
    allFoundWithImg,      \* an image key was received while AllDerivedKeysFound
    validated,            \* history: the candidates handed to each validation, as bags
    \* a search function called directly, as the tests of the extractor do
    sc,                   \* the call in progress, or the last one
    slast,                \* what the call before it did
    sruns,                \* direct calls started
    \* Manager (manager.go)
    mgr                   \* m.ctx as its command found it, and what the command did

valVars == <<version, nExtra, totalDBCount, matchedDBs, matchedCount, vc>>
envVars == <<procStatus, sipDisabled, validatorSet, parentCancelled>>
setVars == <<processedDataKeys, processedDerivedKeys, processedImgKeys, foundDerivedKeys>>
exVars == <<epc, ret, retPath, retFound, finalRawDataKey, finalImgKey, searchCancelled, created>>
chanVars == <<memoryChannel, memClosed, resultChannel, resClosed>>
prodVars == <<ppc, perr, emitted>>
wVars == <<wpc, wmem, wpos, wci, rawDataKey, imgKey>>
histVars == <<dscan, recvBy, allFoundWithImg, validated>>
directVars == <<sc, slast, sruns, mgr>>
pipeVars == <<envVars, setVars, exVars, chanVars, prodVars, wVars, histVars, directVars>>
vars == <<valVars, ncalls, pipeVars>>

Threads == 1..NWorkers

\* ------------------------------------------------------------------ keys
\* Derived keys held in memory, one per database (the first two are the
\* message_0.db and session.db keys of the tests, by their first bytes).
KeyTable == <<"17776688", "33d81c8d", "5a5a5a5a", "6b6b6b6b", "7c7c7c7c">>
JunkKey == "junk"

DBIndices(n) == PrimaryIdx..(n - 1)
DerivedKeyOf(i) == KeyTable[i + 2]
CandidateKeys == {DerivedKeyOf(i) : i \in DBIndices(MaxExtra)} \cup {JunkKey}

\* dv.ValidateDerivedKey(page1 of database i, key): the page authenticates
\* under the MAC key derived from `key` and the page's salt; salts differ per
\* database, so exactly one key authenticates each page.
DvValidateDerivedKey(i, key) == key = DerivedKeyOf(i)

\* v.decryptor.(derivedKeyValidator): only the v4 decryptors implement it.
SupportsDerived == version = 4

\* ------------------------------------------------------------- validator
NoCall == [pc |-> "idle", key |-> JunkKey, idx |-> PrimaryIdx, ret |-> FALSE,
           tested |-> <<>>, seen |-> {}, wrote |-> {}, bumped |-> 0]

\* NewValidatorWithFile: totalDBCount is set only for version 4.
NewValidatorCount(ver, n) == IF ver = 4 THEN n + 1 ELSE 0

\* Mutant: the totalDBCount > 0 guard is dropped.
AllDerivedKeysFound_NoTotalCheck == matchedCount >= totalDBCount

AllDerivedKeysFound == totalDBCount > 0 /\ matchedCount >= totalDBCount

\* Entry of ValidateDerivedKey: the interface assertion, then the primary.
BeginCall(key) ==
    IF SupportsDerived
    THEN [NoCall EXCEPT !.pc = "load", !.key = key, !.idx = PrimaryIdx]
    ELSE [NoCall EXCEPT !.pc = "ret", !.key = key, !.ret = FALSE]

\* The next database of the call, or return false after the last extra.
Advance(c) ==
    IF c.idx + 1 <= nExtra - 1
    THEN [c EXCEPT !.pc = "load", !.idx = c.idx + 1]
    ELSE [c EXCEPT !.pc = "ret", !.ret = FALSE]

\* Mutant: matched databases are not skipped.
LoadStep_NoSkip(c) ==
    [c EXCEPT !.pc = "test",
              !.seen = IF c.idx \in matchedDBs THEN @ ELSE @ \cup {c.idx}]

\* matchedDBs.Load(idx): skip a database already matched.
LoadStep(c) ==
    IF c.idx \in matchedDBs
    THEN Advance(c)
    ELSE [c EXCEPT !.pc = "test", !.seen = @ \cup {c.idx}]

VLoad(t) ==
    /\ vc[t].pc = "load"
    /\ vc' = [vc EXCEPT ![t] = LoadStep(vc[t])]
    /\ UNCHANGED <<version, nExtra, totalDBCount, matchedDBs, matchedCount>>

\* Mutant: a key that authenticates is reported without marking the index.
TestStep_NoMark(c) ==
    LET c1 == [c EXCEPT !.tested = Append(@, c.idx)]
    IN  IF DvValidateDerivedKey(c.idx, c.key)
        THEN [c1 EXCEPT !.pc = "ret", !.ret = TRUE]
        ELSE Advance(c1)

\* dv.ValidateDerivedKey(page, key) on the database at idx.
TestStep(c) ==
    LET c1 == [c EXCEPT !.tested = Append(@, c.idx)]
    IN  IF DvValidateDerivedKey(c.idx, c.key)
        THEN [c1 EXCEPT !.pc = "store"]
        ELSE Advance(c1)

VTest(t) ==
    /\ vc[t].pc = "test"
    /\ vc' = [vc EXCEPT ![t] = TestStep(vc[t])]
    /\ UNCHANGED <<version, nExtra, totalDBCount, matchedDBs, matchedCount>>

\* Mutant: the count is bumped whether or not the index was already stored.
StoreNext_AlwaysAdd(c, already) ==
    [c EXCEPT !.pc = "add", !.wrote = @ \cup {c.idx}]

\* matchedDBs.LoadOrStore(idx, true): the count is bumped only by the call
\* that stored the index.
StoreNext(c, already) ==
    IF already
    THEN [c EXCEPT !.pc = "ret", !.ret = TRUE]
    ELSE [c EXCEPT !.pc = "add", !.wrote = @ \cup {c.idx}]

\* Mutant: the map keeps the last index only.
MarkIndex_Replace(marked, idx) == {idx}

\* The keys of matchedDBs after LoadOrStore(idx, true).
MarkIndex(marked, idx) == marked \cup {idx}

VStore(t) ==
    /\ vc[t].pc = "store"
    /\ matchedDBs' = MarkIndex(matchedDBs, vc[t].idx)
    /\ vc' = [vc EXCEPT ![t] = StoreNext(vc[t], vc[t].idx \in matchedDBs)]
    /\ UNCHANGED <<version, nExtra, totalDBCount, matchedCount>>

\* atomic.AddInt32(&v.matchedCount, 1); return true
VAdd(t) ==
    /\ vc[t].pc = "add"
    /\ matchedCount' = matchedCount + 1
    /\ vc' = [vc EXCEPT ![t] = [@ EXCEPT !.pc = "ret", !.ret = TRUE, !.bumped = @ + 1]]
    /\ UNCHANGED <<version, nExtra, totalDBCount, matchedDBs>>

\* ------------------------------------------------------- memory chunks
\* A chunk is described by what the three searches see in it:
\*   win  the 32-byte windows at offsets 0, 8, 16, ... (ZeroWin: a window with
\*        more than 24 zero bytes); empty when the chunk is shorter than 32 bytes
\*   raw  the anchors SearchKey visits, last occurrence first, each with the
\*        candidates at its offsets that are in range and hold no "\x00\x00"
\*   img  the same for SearchImgKey (16-byte candidates)
ZeroWin == "zero"
RawKey == "rawkey"
ImgKey == "imgkey"
JunkImg == "junkimg"
NoKey == ""

Chunk(win, raw, img) == [id |-> 0, win |-> win, raw |-> raw, img |-> img]
NoChunk == Chunk(<<>>, <<>>, <<>>)

ChunkKinds ==
    {Chunk(<<JunkKey, DerivedKeyOf(i)>>, <<>>, <<>>) : i \in DBIndices(MaxExtra)}
    \cup
    {Chunk(<<ZeroWin, JunkKey>>, << <<JunkKey, RawKey>> >>, <<>>),
     Chunk(<<ZeroWin>>, <<>>, << <<JunkImg>>, <<ImgKey>> >>),
     Chunk(<<DerivedKeyOf(PrimaryIdx)>>, <<>>, << <<ImgKey>> >>),
     Chunk(<<JunkKey>>, << <<RawKey>> >>, << <<ImgKey>> >>),
     Chunk(<<>>, <<>>, <<>>)}

\* decryptor.Validate(page1 of the primary, key): the raw key of the account.
Validate(key) == key = RawKey

\* ValidateImgKey: false when the image validator was not built (version != 4).
ValidateImgKey(key) == version = 4 /\ key = ImgKey

\* Mutant: the goroutines never see their context done.
SearchDone_Never == FALSE

\* searchCtx is a child of ctx: it is done when either was cancelled.
SearchDone == searchCancelled \/ parentCancelled

\* ---------------------------------------------------------------- Extract
ErrNil == "nil"
ErrWeChatOffline == "ErrWeChatOffline"
ErrSIPEnabled == "ErrSIPEnabled"
ErrValidatorNotSet == "ErrValidatorNotSet"
ErrNoValidKey == "ErrNoValidKey"
ErrCtx == "ctx.Err"

NoRet == [dataKey |-> <<>>, imgKey |-> NoKey, err |-> ErrNil]

\* A Go string holding one hex key, or the empty string.
KeyString(k) == IF k = NoKey THEN <<>> ELSE <<k>>

\* The orders in which Range may visit the keys of a sync.Map.
RangeOrders(S) ==
    {f \in [1..Cardinality(S) -> S] : \A i, j \in 1..Cardinality(S) : f[i] = f[j] => i = j}

\* "derived:" + strings.Join(derivedKeys, ",")
DerivedString(keys) == <<"derived:">> \o keys

\* Mutant: the validator is checked before the process and SIP.
Precondition_ValidatorFirst ==
    IF ~validatorSet THEN ErrValidatorNotSet
    ELSE IF procStatus = "offline" THEN ErrWeChatOffline
    ELSE IF ~sipDisabled THEN ErrSIPEnabled
    ELSE ErrNil

\* The precondition checks of Extract, in their order.
Precondition ==
    IF procStatus = "offline" THEN ErrWeChatOffline
    ELSE IF ~sipDisabled THEN ErrSIPEnabled
    ELSE IF ~validatorSet THEN ErrValidatorNotSet
    ELSE ErrNil

ExtractStart ==
    /\ epc = "idle"
    /\ IF Precondition # ErrNil
       THEN /\ epc' = "returned"
            /\ ret' = [NoRet EXCEPT !.err = Precondition]
            /\ retPath' = "precondition"
            /\ retFound' = foundDerivedKeys
            /\ UNCHANGED <<created, wpc, ppc>>
       ELSE /\ epc' = "select"
            /\ created' = TRUE
            /\ wpc' = [w \in Threads |-> "select"]
            /\ ppc' = "running"
            /\ UNCHANGED <<ret, retPath, retFound>>
    /\ UNCHANGED <<valVars, ncalls, envVars, directVars, setVars, finalRawDataKey, finalImgKey,
                   searchCancelled, chanVars, perr, emitted, wmem, wpos, wci,
                   rawDataKey, imgKey, histVars>>

\* case <-ctx.Done(): return "", "", ctx.Err()   (defer cancel() runs)
ExtractCtxDone ==
    /\ epc = "select"
    /\ parentCancelled
    /\ epc' = "returned"
    /\ ret' = [NoRet EXCEPT !.err = ErrCtx]
    /\ retPath' = "ctx"
    /\ retFound' = foundDerivedKeys
    /\ searchCancelled' = TRUE
    /\ UNCHANGED <<valVars, ncalls, envVars, directVars, setVars, finalRawDataKey, finalImgKey,
                   created, chanVars, prodVars, wVars, histVars>>

\* Mutant: the raw key is preferred over the derived keys.
FinalDataKey_RawFirst(derivedKeys, raw) ==
    IF raw # NoKey THEN KeyString(raw)
    ELSE IF Len(derivedKeys) > 0 THEN DerivedString(derivedKeys)
    ELSE <<>>

\* The data key chosen once the result channel is closed.
FinalDataKey(derivedKeys, raw) ==
    IF Len(derivedKeys) > 0 THEN DerivedString(derivedKeys)
    ELSE IF raw # NoKey THEN KeyString(raw)
    ELSE <<>>

\* Mutant: an image key alone is not a result.
ClosedResult_DataKeyOnly(finalDataKey, img) ==
    IF finalDataKey # <<>>
    THEN [dataKey |-> finalDataKey, imgKey |-> img, err |-> ErrNil]
    ELSE [NoRet EXCEPT !.err = ErrNoValidKey]

\* What Extract returns once the result channel is closed.
ClosedResult(finalDataKey, img) ==
    IF finalDataKey # <<>> \/ img # NoKey
    THEN [dataKey |-> finalDataKey, imgKey |-> img, err |-> ErrNil]
    ELSE [NoRet EXCEPT !.err = ErrNoValidKey]

\* case result, ok := <-resultChannel with !ok
\* Mutant: an empty result channel is taken for a closed one.
RecvClosed_WhenEmpty(closed, ch) == ch = <<>>

\* Mutant: a closed channel answers !ok while values are still buffered.
RecvClosed_Undrained(closed, ch) == closed

\* case v, ok := <-ch with !ok: the channel is closed, and nothing is left in it
RecvClosed(closed, ch) == closed /\ ch = <<>>

ExtractClosed ==
    /\ epc = "select"
    /\ RecvClosed(resClosed, resultChannel)
    /\ \E derivedKeys \in RangeOrders(foundDerivedKeys) :
          ret' = ClosedResult(FinalDataKey(derivedKeys, finalRawDataKey), finalImgKey)
    /\ epc' = "returned"
    /\ retPath' = "closed"
    /\ retFound' = foundDerivedKeys
    /\ searchCancelled' = TRUE
    /\ UNCHANGED <<valVars, ncalls, envVars, directVars, setVars, finalRawDataKey, finalImgKey,
                   created, chanVars, prodVars, wVars, histVars>>

\* Mutants of the early-return test.
EarlyReturn_RawAlone(raw, img) == raw # NoKey

EarlyReturn_Never(raw, img) == FALSE

EarlyReturn_AllDerived(raw, img) ==
    (raw # NoKey /\ img # NoKey) \/ (AllDerivedKeysFound /\ img # NoKey)

\* Early return only for raw keys: both a raw key and an image key are in.
EarlyReturn(raw, img) == raw # NoKey /\ img # NoKey

\* Mutant: an empty component of a message wipes the key received before.
TakeKey_Overwrite(got, final) == got

\* if result[0] != "" { finalRawDataKey = result[0] }, and likewise result[1]
TakeKey(got, final) == IF got # NoKey THEN got ELSE final

\* case result, ok := <-resultChannel with ok
ExtractRecv ==
    /\ epc = "select"
    /\ resultChannel # <<>>
    /\ LET result == Head(resultChannel)
           raw == TakeKey(result[1], finalRawDataKey)
           img == TakeKey(result[2], finalImgKey)
       IN  /\ resultChannel' = Tail(resultChannel)
           /\ finalRawDataKey' = raw
           /\ finalImgKey' = img
           /\ IF EarlyReturn(raw, img)
              THEN /\ searchCancelled' = TRUE
                   /\ epc' = "returned"
                   /\ ret' = [dataKey |-> KeyString(raw), imgKey |-> img, err |-> ErrNil]
                   /\ retPath' = "early"
                   /\ retFound' = foundDerivedKeys
              ELSE UNCHANGED <<searchCancelled, epc, ret, retPath, retFound>>
           /\ allFoundWithImg' = (allFoundWithImg \/ (img # NoKey /\ AllDerivedKeysFound))
    /\ UNCHANGED <<valVars, ncalls, envVars, directVars, setVars, created, memoryChannel, memClosed,
                   resClosed, prodVars, wVars, dscan, recvBy, validated>>

\* The caller cancels its context.
ParentCancel ==
    /\ ~parentCancelled
    /\ epc # "returned"
    /\ parentCancelled' = TRUE
    /\ UNCHANGED <<valVars, ncalls, procStatus, sipDisabled, validatorSet, directVars, setVars, exVars,
                   chanVars, prodVars, wVars, histVars>>

\* --------------------------------------------------------------- producer
\* g.Read2Chan(ctx, memoryChannel): the reader sends the next chunk (a send
\* that races with the cancellation may still go through).
ProducerEmit(kind) ==
    /\ ppc = "running"
    /\ emitted < MaxChunks
    /\ Len(memoryChannel) < MemChanCap
    /\ emitted' = emitted + 1
    /\ memoryChannel' = Append(memoryChannel, [kind EXCEPT !.id = emitted + 1])
    /\ UNCHANGED <<valVars, ncalls, envVars, directVars, setVars, exVars, memClosed, resultChannel,
                   resClosed, ppc, perr, wVars, histVars>>

\* findMemory returns (an error is only logged); defer close(memoryChannel)
ProducerReturn(failed) ==
    /\ ppc = "running"
    /\ ppc' = "done"
    /\ perr' = failed
    /\ memClosed' = TRUE
    /\ UNCHANGED <<valVars, ncalls, envVars, directVars, setVars, exVars, memoryChannel, resultChannel,
                   resClosed, emitted, wVars, histVars>>

\* producerWaitGroup.Wait(); workerWaitGroup.Wait(); close(resultChannel)
\* Mutant: the closing goroutine waits for the producer only.
WaitGroupsDone_ProducerOnly(p, ws) == p = "done"

\* producerWaitGroup.Wait(); workerWaitGroup.Wait()
WaitGroupsDone(p, ws) == p = "done" /\ \A w \in Threads : ws[w] = "done"

CloseResults ==
    /\ created
    /\ ~resClosed
    /\ WaitGroupsDone(ppc, wpc)
    /\ resClosed' = TRUE
    /\ UNCHANGED <<valVars, ncalls, envVars, directVars, setVars, exVars, memoryChannel, memClosed,
                   resultChannel, prodVars, wVars, histVars>>

\* ----------------------------------------------------------------- worker
\* The stage a worker enters after the derived-key scan of its chunk:
\* SearchKey when it holds no raw key, else SearchImgKey when it holds no
\* image key, else the next select.  (A search over a chunk without anchors
\* returns not-found and touches no shared state.)
StageAfterRaw(mem, imgK) ==
    IF imgK = NoKey /\ mem.img # <<>> THEN "imgCtx" ELSE "select"

StageAfterDerived(mem, rawK, imgK) ==
    IF rawK = NoKey /\ mem.raw # <<>> THEN "rawCtx" ELSE StageAfterRaw(mem, imgK)

Resting(pc) == pc \in {"select", "done"}

Enter(w, pc) ==
    /\ wpc' = [wpc EXCEPT ![w] = pc]
    /\ wpos' = [wpos EXCEPT ![w] = IF Resting(pc) THEN 0 ELSE 1]
    /\ wci' = [wci EXCEPT ![w] = IF Resting(pc) THEN 0 ELSE 1]
    /\ wmem' = [wmem EXCEPT ![w] = IF Resting(pc) THEN NoChunk ELSE wmem[w]]

\* The scan of SearchAllDerivedKeys ends with the given outcome.
EndScan(w, outcome) ==
    /\ dscan' = [dscan EXCEPT ![wmem[w].id] = outcome]
    /\ Enter(w, StageAfterDerived(wmem[w], rawDataKey[w], imgKey[w]))

\* pos%(8*1024) == 0 for the window with index i (pos = 8 * (i - 1))
\* Mutant: no poll before the first window.
AtPoll_NotAtStart(i) == i > 1 /\ (Stride * (i - 1)) % PollInterval = 0

AtPoll(i) == (Stride * (i - 1)) % PollInterval = 0

\* for pos := ...; pos+32 <= len(memory); pos += 8
ScanTo(w, i) ==
    IF i > Len(wmem[w].win)
    THEN EndScan(w, "full")
    ELSE /\ wpc' = [wpc EXCEPT ![w] = IF AtPoll(i) THEN "pollCtx" ELSE "window"]
         /\ wpos' = [wpos EXCEPT ![w] = i]
         /\ UNCHANGED <<wci, wmem, dscan>>

\* case <-ctx.Done(): return
WSelectDone(w) ==
    /\ wpc[w] = "select"
    /\ SearchDone
    /\ Enter(w, "done")
    /\ UNCHANGED <<valVars, ncalls, envVars, directVars, setVars, exVars, chanVars, prodVars,
                   rawDataKey, imgKey, histVars>>

\* case memory, ok := <-memoryChannel with ok
WRecv(w) ==
    /\ wpc[w] = "select"
    /\ memoryChannel # <<>>
    /\ memoryChannel' = Tail(memoryChannel)
    /\ wmem' = [wmem EXCEPT ![w] = Head(memoryChannel)]
    /\ wpc' = [wpc EXCEPT ![w] = "derived"]
    /\ recvBy' = [recvBy EXCEPT ![Head(memoryChannel).id] = @ \cup {w}]
    /\ UNCHANGED <<valVars, ncalls, envVars, directVars, setVars, exVars, memClosed, resultChannel,
                   resClosed, prodVars, wpos, wci, rawDataKey, imgKey, dscan, allFoundWithImg,
                   validated>>

\* case memory, ok := <-memoryChannel with !ok: a last, non-blocking report
WRecvClosed(w) ==
    /\ wpc[w] = "select"
    /\ RecvClosed(memClosed, memoryChannel)
    /\ resultChannel' =
          IF (rawDataKey[w] # NoKey \/ imgKey[w] # NoKey)
             /\ Len(resultChannel) < ResultChanCap
          THEN Append(resultChannel, <<rawDataKey[w], imgKey[w]>>)
          ELSE resultChannel
    /\ Enter(w, "done")
    /\ UNCHANGED <<valVars, ncalls, envVars, directVars, setVars, exVars, memoryChannel, memClosed,
                   resClosed, prodVars, rawDataKey, imgKey, histVars>>

\* if !e.validator.AllDerivedKeysFound() { e.SearchAllDerivedKeys(ctx, memory) }
WCheckAll(w) ==
    /\ wpc[w] = "derived"
    /\ IF AllDerivedKeysFound
       THEN EndScan(w, "skipped")
       ELSE ScanTo(w, 1)
    /\ UNCHANGED <<valVars, ncalls, envVars, directVars, setVars, exVars, chanVars, prodVars,
                   rawDataKey, imgKey, recvBy, allFoundWithImg, validated>>

\* the poll of SearchAllDerivedKeys: select { case <-ctx.Done(): return count ...
WPollCtx(w) ==
    /\ wpc[w] = "pollCtx"
    /\ IF SearchDone
       THEN EndScan(w, "cancelled")
       ELSE /\ wpc' = [wpc EXCEPT ![w] = "pollAll"]
            /\ UNCHANGED <<wpos, wci, wmem, dscan>>
    /\ UNCHANGED <<valVars, ncalls, envVars, directVars, setVars, exVars, chanVars, prodVars,
                   rawDataKey, imgKey, recvBy, allFoundWithImg, validated>>

\* ... if e.validator.AllDerivedKeysFound() { return count }
WPollAll(w) ==
    /\ wpc[w] = "pollAll"
    /\ IF AllDerivedKeysFound
       THEN EndScan(w, "allfound")
       ELSE /\ wpc' = [wpc EXCEPT ![w] = "window"]
            /\ UNCHANGED <<wpos, wci, wmem, dscan>>
    /\ UNCHANGED <<valVars, ncalls, envVars, directVars, setVars, exVars, chanVars, prodVars,
                   rawDataKey, imgKey, recvBy, allFoundWithImg, validated>>

\* History: one more candidate handed to e.validator.Validate ("raw"),
\* ValidateDerivedKey ("derived") or ValidateImgKey ("img").
NoneValidated == [raw |-> EmptyBag, derived |-> EmptyBag, img |-> EmptyBag]

Submit(kind, key) == [validated EXCEPT ![kind] = @ (+) SetToBag({key})]

\* The window is a candidate: not mostly zero, and new to processedDerivedKeys.
\* Mutant: LoadOrStore's answer is ignored.
IsNewCandidate_NoDedup(key, processed) == key # ZeroWin

IsNewCandidate(key, processed) == key # ZeroWin /\ key \notin processed

\* one window: the zero filter, processedDerivedKeys.LoadOrStore, and, for a
\* new candidate, the entry of ValidateDerivedKey
WWindow(w) ==
    /\ wpc[w] = "window"
    /\ LET key == wmem[w].win[wpos[w]]
       IN  IF IsNewCandidate(key, processedDerivedKeys)
           THEN /\ processedDerivedKeys' = processedDerivedKeys \cup {key}
                /\ vc' = [vc EXCEPT ![w] = BeginCall(key)]
                /\ validated' = Submit("derived", key)
                /\ wpc' = [wpc EXCEPT ![w] = "validate"]
                /\ UNCHANGED <<wpos, wci, wmem, dscan>>
           ELSE /\ ScanTo(w, wpos[w] + 1)
                /\ UNCHANGED <<processedDerivedKeys, vc, validated>>
    /\ UNCHANGED <<version, nExtra, totalDBCount, matchedDBs, matchedCount, ncalls,
                   envVars, directVars, processedDataKeys, processedImgKeys, foundDerivedKeys,
                   exVars, chanVars, prodVars, rawDataKey, imgKey, recvBy, allFoundWithImg>>

\* Mutant: the candidate is stored whatever ValidateDerivedKey returned.
StoreFound_Unchecked(found, key, ok) == found \cup {key}

\* The keys stored after ValidateDerivedKey returned ok.
StoreFound(found, key, ok) == IF ok THEN found \cup {key} ELSE found

\* ValidateDerivedKey returned: foundDerivedKeys.Store on success, next window
WValidated(w) ==
    /\ wpc[w] = "validate"
    /\ vc[w].pc = "ret"
    /\ foundDerivedKeys' = StoreFound(foundDerivedKeys, vc[w].key, vc[w].ret)
    /\ vc' = [vc EXCEPT ![w] = NoCall]
    /\ ScanTo(w, wpos[w] + 1)
    /\ UNCHANGED <<version, nExtra, totalDBCount, matchedDBs, matchedCount, ncalls,
                   envVars, directVars, processedDataKeys, processedDerivedKeys, processedImgKeys,
                   exVars, chanVars, prodVars, rawDataKey, imgKey, recvBy, allFoundWithImg,
                   validated>>

\* The candidate after (a, c) in a list of anchors: the next offset of the
\* anchor, else the next anchor (through its ctx check), else the search ends.
NextCandidate(w, anchors, ctxPc, candPc, endPc) ==
    IF wci[w] + 1 <= Len(anchors[wpos[w]])
    THEN /\ wci' = [wci EXCEPT ![w] = @ + 1]
         /\ wpc' = [wpc EXCEPT ![w] = candPc]
         /\ UNCHANGED <<wpos, wmem>>
    ELSE IF wpos[w] + 1 <= Len(anchors)
    THEN /\ wpos' = [wpos EXCEPT ![w] = @ + 1]
         /\ wci' = [wci EXCEPT ![w] = 1]
         /\ wpc' = [wpc EXCEPT ![w] = ctxPc]
         /\ UNCHANGED wmem
    ELSE Enter(w, endPc)

\* SearchKey, head of the loop: select { case <-ctx.Done(): return "", false
WRawCtx(w) ==
    /\ wpc[w] = "rawCtx"
    /\ IF SearchDone
       THEN Enter(w, StageAfterRaw(wmem[w], imgKey[w]))
       ELSE /\ wpc' = [wpc EXCEPT ![w] = "rawCand"]
            /\ UNCHANGED <<wpos, wci, wmem>>
    /\ UNCHANGED <<valVars, ncalls, envVars, directVars, setVars, exVars, chanVars, prodVars,
                   rawDataKey, imgKey, histVars>>

\* SearchKey, one offset: processedDataKeys.LoadOrStore, then Validate
WRawCand(w) ==
    /\ wpc[w] = "rawCand"
    /\ LET key == wmem[w].raw[wpos[w]][wci[w]]
       IN  /\ processedDataKeys' = processedDataKeys \cup {key}
           /\ validated' = IF key \notin processedDataKeys
                            THEN Submit("raw", key) ELSE validated
           /\ IF key \notin processedDataKeys /\ Validate(key)
              THEN /\ rawDataKey' = [rawDataKey EXCEPT ![w] = key]
                   /\ wpc' = [wpc EXCEPT ![w] = "rawSend"]
                   /\ UNCHANGED <<wpos, wci, wmem>>
              ELSE /\ NextCandidate(w, wmem[w].raw, "rawCtx", "rawCand",
                                    StageAfterRaw(wmem[w], imgKey[w]))
                   /\ UNCHANGED rawDataKey
    /\ UNCHANGED <<valVars, ncalls, envVars, directVars, processedDerivedKeys, processedImgKeys,
                   foundDerivedKeys, exVars, chanVars, prodVars, imgKey, dscan, recvBy,
                   allFoundWithImg>>

\* SearchImgKey, head of the loop
WImgCtx(w) ==
    /\ wpc[w] = "imgCtx"
    /\ IF SearchDone
       THEN Enter(w, "select")
       ELSE /\ wpc' = [wpc EXCEPT ![w] = "imgCand"]
            /\ UNCHANGED <<wpos, wci, wmem>>
    /\ UNCHANGED <<valVars, ncalls, envVars, directVars, setVars, exVars, chanVars, prodVars,
                   rawDataKey, imgKey, histVars>>

\* SearchImgKey, one offset: processedImgKeys.LoadOrStore, then ValidateImgKey
WImgCand(w) ==
    /\ wpc[w] = "imgCand"
    /\ LET key == wmem[w].img[wpos[w]][wci[w]]
       IN  /\ processedImgKeys' = processedImgKeys \cup {key}
           /\ validated' = IF key \notin processedImgKeys
                            THEN Submit("img", key) ELSE validated
           /\ IF key \notin processedImgKeys /\ ValidateImgKey(key)
              THEN /\ imgKey' = [imgKey EXCEPT ![w] = key]
                   /\ wpc' = [wpc EXCEPT ![w] = "imgSend"]
                   /\ UNCHANGED <<wpos, wci, wmem>>
              ELSE /\ NextCandidate(w, wmem[w].img, "imgCtx", "imgCand", "select")
                   /\ UNCHANGED imgKey
    /\ UNCHANGED <<valVars, ncalls, envVars, directVars, processedDataKeys, processedDerivedKeys,
                   foundDerivedKeys, exVars, chanVars, prodVars, rawDataKey, dscan, recvBy,
                   allFoundWithImg>>

\* Mutant: a derived key that was found goes out in the raw component.
WorkerMessage_Derived(w) ==
    <<IF foundDerivedKeys # {} THEN CHOOSE k \in foundDerivedKeys : TRUE ELSE rawDataKey[w],
      imgKey[w]>>

\* Mutant: the image component is left empty.
WorkerMessage_RawOnly(w) == <<rawDataKey[w], NoKey>>

\* The message a worker publishes.
WorkerMessage(w) == <<rawDataKey[w], imgKey[w]>>

\* select { case resultChannel <- [2]string{rawDataKey, imgKey}:
WSend(w) ==
    /\ wpc[w] \in {"rawSend", "imgSend"}
    /\ Len(resultChannel) < ResultChanCap
    /\ resultChannel' = Append(resultChannel, WorkerMessage(w))
    /\ Enter(w, IF wpc[w] = "rawSend" THEN StageAfterRaw(wmem[w], imgKey[w]) ELSE "select")
    /\ UNCHANGED <<valVars, ncalls, envVars, directVars, setVars, exVars, memoryChannel, memClosed,
                   resClosed, prodVars, rawDataKey, imgKey, histVars>>

\*          case <-ctx.Done(): return }
WSendCancelled(w) ==
    /\ wpc[w] \in {"rawSend", "imgSend"}
    /\ SearchDone
    /\ Enter(w, "done")
    /\ UNCHANGED <<valVars, ncalls, envVars, directVars, setVars, exVars, chanVars, prodVars,
                   rawDataKey, imgKey, histVars>>

\* ------------------------------------------------- memory, byte by byte
\* A chunk of process memory as a sequence of cells of Stride bytes each:
\*   CellZero  eight zero bytes
\*   CellFTS   the FTS5 pattern 20 66 74 73 35 28 25 00 of V4KeyPatterns
\*   n > 0     eight non-zero bytes; different numbers are different bytes
KeyLen == 32
ZeroLimit == 24
CellZero == 0
CellFTS == -1
KeyCells == KeyLen \div Stride

MemLen(cells) == Stride * Len(cells)

\* The bytes of the raw key of the account and of the derived key of each
\* database, as cells.
RawCells == <<11, 12, 13, 14>>
DerivedCells(i) == [c \in 1..KeyCells |-> 100 + 10 * (i + 2) + c]

\* memory[pos : pos+n] for a cell-aligned pos and length.
Slice(cells, pos, n) == SubSeq(cells, pos \div Stride + 1, (pos + n) \div Stride)

\* for _, b := range keyData { if b == 0 { zeroCount++ } }
ZeroBytes(cell) == IF cell = CellZero THEN Stride ELSE IF cell = CellFTS THEN 1 ELSE 0

RECURSIVE ZeroCount(_)
ZeroCount(w) == IF w = <<>> THEN 0 ELSE ZeroBytes(Head(w)) + ZeroCount(Tail(w))

\* hex.EncodeToString(keyData): one string per byte value (injective); the
\* known keys encode to the strings the validator knows them by.
Hex(w) ==
    IF w = RawCells THEN RawKey
    ELSE IF \E i \in DBIndices(MaxExtra) : w = DerivedCells(i)
    THEN DerivedKeyOf(CHOOSE i \in DBIndices(MaxExtra) : w = DerivedCells(i))
    ELSE ToString(w)

\* Mutant: more than 24 zero bytes are let through.
WindowKey_NoZeroFilter(cells, pos) == Hex(Slice(cells, pos, KeyLen))

\* The window of SearchAllDerivedKeys at pos, after its zero filter.
WindowKey(cells, pos) ==
    IF ZeroCount(Slice(cells, pos, KeyLen)) > ZeroLimit
    THEN ZeroWin
    ELSE Hex(Slice(cells, pos, KeyLen))

\* ------------------------------------------- search functions called directly
\* The chunks the direct callers pass, after the tests of the extractor: a key
\* at a 16-byte-aligned and at an only 8-byte-aligned offset, zero memory,
\* random memory, a chunk shorter than a key, windows with 24 and with 25 zero
\* bytes, both keys in one chunk, and the key of the other database alone.
TestMemories ==
    <<  <<1, 2>> \o DerivedCells(PrimaryIdx) \o <<3>>,
        <<1>> \o DerivedCells(PrimaryIdx) \o <<3>>,
        <<CellZero, CellZero, CellZero, CellZero, CellZero>>,
        <<4, 5, 6, 7, 8>>,
        <<1, 2, 3>>,
        <<CellZero, CellZero, CellZero, CellFTS, 9>>,
        <<CellZero, CellZero, CellZero, 9>>,
        <<1>> \o DerivedCells(0) \o DerivedCells(PrimaryIdx),
        <<1, 2>> \o DerivedCells(0) \o <<3>>  >>

\* A chunk that reaches past the second poll of the scan, all windows different.
LongMemory == [c \in 1..(PollInterval \div Stride + KeyCells) |-> 1000 + c]

\* A chunk as long that begins with the key of the primary database.
LongKeyMemory ==
    DerivedCells(PrimaryIdx) \o [c \in 1..(PollInterval \div Stride) |-> 2000 + c]

MemoryTable == TestMemories \o <<LongMemory, LongKeyMemory>>
TestIds == 1..Len(TestMemories)
LongId == Len(TestMemories) + 1
LongKeyId == Len(TestMemories) + 2

NoDirect ==
    [fn |-> "none", pc |-> "idle", mem |-> 0, pos |-> 0, count |-> 0,
     sincePoll |-> 0, allLate |-> TRUE, stale |-> FALSE, ctx0 |-> FALSE,
     found0 |-> {}, processed0 |-> {}, matched0 |-> {}, validated0 |-> EmptyBag,
     rkey |-> NoKey, rfound |-> FALSE, pat |-> 0, index |-> 0, iters |-> 0]

DerivedFns == {"SearchAllDerivedKeys", "SearchDerivedKey"}

\* One step of a ValidateDerivedKey call, for a caller that runs alone.
StepCall(c) ==
    IF c.pc = "load" THEN LoadStep(c)
    ELSE IF c.pc = "test" THEN TestStep(c)
    ELSE IF c.pc = "store" THEN StoreNext(c, c.idx \in matchedDBs)
    ELSE [c EXCEPT !.pc = "ret", !.ret = TRUE, !.bumped = @ + 1]

\* The whole of the call: its steps up to the return.
RECURSIVE CallResult(_)
CallResult(c) ==
    IF c.pc = "ret" THEN c
    ELSE CHOOSE r \in {CallResult(n) : n \in {StepCall(c)}} : TRUE

\* for pos := 0; pos+32 <= len(memory); pos += 8, and the poll at the head
ScanPc(cells, pos) ==
    IF pos + KeyLen > MemLen(cells) THEN "ret"
    ELSE IF AtPoll(pos \div Stride + 1) THEN "poll"
    ELSE "window"

\* e.SearchAllDerivedKeys(ctx, memory) or e.SearchDerivedKey(ctx, memory) is
\* called on a chunk by a caller that is not Extract.
SCall(fn, m) ==
    /\ sc.pc = "idle"
    /\ epc = "idle"
    /\ sruns < MaxRuns
    /\ sruns' = sruns + 1
    /\ slast' = sc
    /\ sc' = [NoDirect EXCEPT
                !.fn = fn, !.mem = m,
                !.pc = IF MemLen(MemoryTable[m]) < KeyLen THEN "ret"
                       ELSE ScanPc(MemoryTable[m], 0),
                !.ctx0 = parentCancelled,
                !.found0 = foundDerivedKeys,
                !.processed0 = processedDerivedKeys,
                !.matched0 = matchedDBs,
                !.validated0 = validated.derived]
    /\ UNCHANGED <<valVars, ncalls, envVars, setVars, exVars, chanVars, prodVars, wVars,
                   histVars, mgr>>

\* Mutant: the poll does not look at the context.
PollStops_NoCtx(done, allFound) == allFound

\* Mutant: the poll does not ask the validator.
PollStops_NoAllFound(done, allFound) == done

\* select { case <-ctx.Done(): return count ... } if AllDerivedKeysFound() { return count }
PollStops(done, allFound) == done \/ allFound

\* if pos%(8*1024) == 0: the context, then AllDerivedKeysFound.  History:
\*   sincePoll  the candidates handed to the validator since the last poll
\*   allLate    each of them was handed over with the context already cancelled
\*   stale      a poll let the scan go on although the context was cancelled
SPoll ==
    /\ sc.pc = "poll"
    /\ sc' = IF PollStops(parentCancelled, AllDerivedKeysFound)
             THEN [sc EXCEPT !.pc = "ret"]
             ELSE [sc EXCEPT !.pc = "window", !.sincePoll = 0, !.allLate = TRUE,
                             !.stale = @ \/ parentCancelled]
    /\ UNCHANGED <<valVars, ncalls, envVars, setVars, exVars, chanVars, prodVars, wVars,
                   histVars, slast, sruns, mgr>>

\* Mutant: the candidate is looked up but not stored.
LoadOrStore_NoStore(processed, key) == processed

\* e.processedDerivedKeys.LoadOrStore(keyHex, true): the set afterwards.
LoadOrStore(processed, key) == processed \cup {key}

\* one window: zero filter, LoadOrStore, ValidateDerivedKey, Store, count++
SWindow ==
    /\ sc.pc = "window"
    /\ LET cells == MemoryTable[sc.mem]
           key == WindowKey(cells, sc.pos)
           r == CallResult(BeginCall(key))
           next == sc.pos + Stride
       IN  IF IsNewCandidate(key, processedDerivedKeys)
           THEN /\ processedDerivedKeys' = LoadOrStore(processedDerivedKeys, key)
                /\ validated' = Submit("derived", key)
                /\ matchedDBs' = matchedDBs \cup r.wrote
                /\ matchedCount' = matchedCount + r.bumped
                /\ foundDerivedKeys' = StoreFound(foundDerivedKeys, key, r.ret)
                /\ sc' = [sc EXCEPT !.pos = next, !.pc = ScanPc(cells, next),
                                    !.count = IF r.ret THEN @ + 1 ELSE @,
                                    !.sincePoll = @ + 1,
                                    !.allLate = @ /\ parentCancelled]
           ELSE /\ sc' = [sc EXCEPT !.pos = next, !.pc = ScanPc(cells, next)]
                /\ UNCHANGED <<processedDerivedKeys, validated, matchedDBs, matchedCount,
                               foundDerivedKeys>>
    /\ UNCHANGED <<version, nExtra, totalDBCount, vc, ncalls, envVars, processedDataKeys,
                   processedImgKeys, exVars, chanVars, prodVars, wVars, dscan, recvBy,
                   allFoundWithImg, slast, sruns, mgr>>

\* History: the candidates the call in progress has handed to the validator.
SubmittedInCall == validated.derived (-) sc.validated0

\* foundDerivedKeys.Range(...; return false): the first key Range visits.
FirstKey(found) == found

\* return count; SearchDerivedKey then answers with a key of foundDerivedKeys
SReturn ==
    /\ sc.pc = "ret"
    /\ sc.fn \in DerivedFns
    /\ IF sc.fn = "SearchDerivedKey" /\ sc.count > 0
       THEN \E k \in FirstKey(foundDerivedKeys) :
               sc' = [sc EXCEPT !.pc = "idle", !.rkey = k, !.rfound = TRUE]
       ELSE sc' = [sc EXCEPT !.pc = "idle"]
    /\ UNCHANGED <<valVars, ncalls, envVars, setVars, exVars, chanVars, prodVars, wVars,
                   histVars, slast, sruns, mgr>>

\* ------------------------------------------------------ SearchKey, by bytes
\* V4KeyPatterns: the FTS5 pattern with its offsets, then sixteen zero bytes.
FTSPattern == <<32, 102, 116, 115, 53, 40, 37, 0>>
ZeroPattern == [j \in 1..16 |-> 0]
V4KeyPatterns ==
    << [Pattern |-> FTSPattern, Offsets |-> <<16, -80, 64>>],
       [Pattern |-> ZeroPattern, Offsets |-> <<-32>>] >>

\* The bytes of a cell: a cell n > 0 is eight bytes of one non-zero value
\* that is no byte of a pattern.
ByteBase == 256
CellByte(cell, j) ==
    IF cell = CellZero THEN 0
    ELSE IF cell = CellFTS THEN FTSPattern[j]
    ELSE ByteBase + cell

Bytes(cells) ==
    [b \in 1..MemLen(cells) |-> CellByte(cells[((b - 1) \div Stride) + 1], ((b - 1) % Stride) + 1)]

\* memory[i : i+len(pat)] == pat, for a 0-based i
MatchAt(mem, i, pat) ==
    /\ i >= 0
    /\ i + Len(pat) <= Len(mem)
    /\ \A j \in 1..Len(pat) : mem[i + j] = pat[j]

Greatest(S) == IF S = {} THEN -1 ELSE CHOOSE x \in S : \A y \in S : y <= x

\* Mutant: bytes.LastIndex(memory, pat), the whole chunk at every turn.
LastIndex_Whole(mem, index, pat) ==
    Greatest({i \in 0..(Len(mem) - Len(pat)) : MatchAt(mem, i, pat)})

\* bytes.LastIndex(memory[:index], pat)
LastIndex(mem, index, pat) ==
    Greatest({i \in 0..(index - Len(pat)) : MatchAt(mem, i, pat)})

\* bytes.LastIndexFunc(memory[:index], r != 0)
LastIndexNonZero(mem, index) == Greatest({i \in 0..(index - 1) : mem[i + 1] # 0})

\* bytes.Contains(memory[keyOffset:keyOffset+32], {0, 0})
ContainsTwoZeros(mem, keyOffset) ==
    \E i \in keyOffset..(keyOffset + KeyLen - 2) : mem[i + 1] = 0 /\ mem[i + 2] = 0

\* keyOffset < 0 || keyOffset+32 > len(memory)
OutOfChunk(mem, keyOffset) == keyOffset < 0 \/ keyOffset + KeyLen > Len(mem)

\* hex.EncodeToString(memory[keyOffset:keyOffset+32])
HexAt(mem, keyOffset) ==
    LET w == SubSeq(mem, keyOffset + 1, keyOffset + KeyLen)
    IN  IF w = Bytes(RawCells) THEN RawKey ELSE ToString(w)

\* for _, offset := range keyPattern.Offsets { ... }: the offsets from the
\* k-th on, for the anchor at index; r collects the keys handed to Validate
\* and the key returned.
RECURSIVE TryOffsets(_, _, _, _, _)
TryOffsets(mem, index, offsets, k, r) ==
    IF k > Len(offsets) THEN r
    ELSE LET keyOffset == index + offsets[k]
         IN  IF OutOfChunk(mem, keyOffset) \/ ContainsTwoZeros(mem, keyOffset)
                  \/ HexAt(mem, keyOffset) \in r.processed
             THEN TryOffsets(mem, index, offsets, k + 1, r)
             ELSE LET keyHex == HexAt(mem, keyOffset)
                      tried == [r EXCEPT !.processed = @ \cup {keyHex},
                                         !.handed = @ \cup {keyHex}]
                  IN  IF Validate(keyHex)
                      THEN [tried EXCEPT !.key = keyHex, !.found = TRUE]
                      ELSE TryOffsets(mem, index, offsets, k + 1, tried)

\* The chunks SearchKey is called on: the FTS5 pattern 16 bytes before the
\* key; two FTS5 patterns in a row before the key; the key before sixteen
\* zero bytes; no pattern; a pattern without key after a pattern with key;
\* the key 80 bytes before the pattern; the key 64 bytes after it.
KeyMemories ==
    <<  <<1, CellFTS, 2>> \o RawCells \o <<3>>,
        <<CellFTS, CellFTS>> \o RawCells,
        RawCells \o <<CellZero, CellZero>>,
        <<4, 5, 6, 7, 8>>,
        <<CellFTS, 5>> \o RawCells \o <<6, CellFTS, 7>>,
        RawCells \o <<1, 2, 3, 4, 5, 6, CellFTS>>,
        <<CellFTS, 1, 2, 3, 4, 5, 6, 7>> \o RawCells  >>

KeyIds == 1..Len(KeyMemories)

\* e.SearchKey(ctx, memory) is called by a caller that is not Extract.
KCall(m) ==
    /\ sc.pc = "idle"
    /\ epc = "idle"
    /\ sruns < MaxRuns
    /\ sruns' = sruns + 1
    /\ slast' = sc
    /\ sc' = [NoDirect EXCEPT
                !.fn = "SearchKey", !.mem = m, !.pc = "anchor",
                !.pat = 1, !.index = MemLen(KeyMemories[m]),
                !.ctx0 = parentCancelled,
                !.found0 = foundDerivedKeys,
                !.processed0 = processedDataKeys,
                !.matched0 = matchedDBs,
                !.validated0 = validated.derived]
    /\ UNCHANGED <<valVars, ncalls, envVars, setVars, exVars, chanVars, prodVars, wVars,
                   histVars, mgr>>

\* break out of the inner loop: the next pattern, or return "", false
NextPattern(c, mem) ==
    IF c.pat < Len(V4KeyPatterns)
    THEN [c EXCEPT !.pat = @ + 1, !.index = Len(mem), !.iters = 0]
    ELSE [c EXCEPT !.pc = "idle"]

\* History: one more turn of the inner loop of the pattern.
Turn(c) == [c EXCEPT !.iters = @ + 1]

\* One turn of the inner loop of SearchKey: the poll of the context, the last
\* occurrence of the pattern before index, its offsets, index -= 1.
KAnchor ==
    /\ sc.pc = "anchor"
    /\ LET mem == Bytes(KeyMemories[sc.mem])
           pat == V4KeyPatterns[sc.pat]
           hit == LastIndex(mem, sc.index, pat.Pattern)
           last == IF hit = -1 THEN -1 ELSE LastIndexNonZero(mem, hit)
           index == IF pat.Pattern = ZeroPattern THEN last + 1 ELSE hit
           r == TryOffsets(mem, index, pat.Offsets, 1,
                           [processed |-> processedDataKeys, handed |-> {},
                            key |-> NoKey, found |-> FALSE])
           turn == Turn(sc)
       IN  IF parentCancelled
           THEN /\ sc' = [turn EXCEPT !.pc = "idle"]
                /\ UNCHANGED <<processedDataKeys, validated>>
           ELSE IF hit = -1 \/ (pat.Pattern = ZeroPattern /\ last = -1)
           THEN /\ sc' = NextPattern(turn, mem)
                /\ UNCHANGED <<processedDataKeys, validated>>
           ELSE /\ processedDataKeys' = r.processed
                /\ validated' = [validated EXCEPT !.raw = @ (+) SetToBag(r.handed)]
                /\ sc' = IF r.found
                         THEN [turn EXCEPT !.pc = "idle", !.rkey = r.key, !.rfound = TRUE,
                                          !.index = index]
                         ELSE IF index - 1 < 0
                         THEN NextPattern([turn EXCEPT !.index = index - 1], mem)
                         ELSE [turn EXCEPT !.index = index - 1]
    /\ UNCHANGED <<valVars, ncalls, envVars, processedDerivedKeys, processedImgKeys,
                   foundDerivedKeys, exVars, chanVars, prodVars, wVars, dscan, recvBy,
                   allFoundWithImg, slast, sruns, mgr>>

\* --------------------------------------------------- SearchImgKey, by bytes
\* V4ImgKeyPatterns: sixteen zero bytes, the key 32 bytes before the run.
V4ImgKeyPatterns == << [Pattern |-> ZeroPattern, Offsets |-> <<-32>>] >>

ImgKeyLen == 16

\* The bytes of the image key, as cells.
ImgCells == <<21, 22>>

\* keyOffset < 0 || keyOffset+16 > len(memory)
ImgOutOfChunk(mem, keyOffset) == keyOffset < 0 \/ keyOffset + ImgKeyLen > Len(mem)

\* bytes.Contains(memory[keyOffset:keyOffset+16], {0, 0})
ImgContainsTwoZeros(mem, keyOffset) ==
    \E i \in keyOffset..(keyOffset + ImgKeyLen - 2) : mem[i + 1] = 0 /\ mem[i + 2] = 0

\* hex.EncodeToString(memory[keyOffset:keyOffset+16])
ImgHexAt(mem, keyOffset) ==
    LET w == SubSeq(mem, keyOffset + 1, keyOffset + ImgKeyLen)
    IN  IF w = Bytes(ImgCells) THEN ImgKey ELSE ToString(w)

\* for _, offset := range keyPattern.Offsets { ... } of SearchImgKey
RECURSIVE TryImgOffsets(_, _, _, _, _)
TryImgOffsets(mem, index, offsets, k, r) ==
    IF k > Len(offsets) THEN r
    ELSE LET keyOffset == index + offsets[k]
         IN  IF ImgOutOfChunk(mem, keyOffset) \/ ImgContainsTwoZeros(mem, keyOffset)
                  \/ ImgHexAt(mem, keyOffset) \in r.processed
             THEN TryImgOffsets(mem, index, offsets, k + 1, r)
             ELSE LET keyHex == ImgHexAt(mem, keyOffset)
                      tried == [r EXCEPT !.processed = @ \cup {keyHex},
                                         !.handed = @ \cup {keyHex}]
                  IN  IF ValidateImgKey(keyHex)
                      THEN [tried EXCEPT !.key = keyHex, !.found = TRUE]
                      ELSE TryImgOffsets(mem, index, offsets, k + 1, tried)

\* The chunks SearchImgKey is called on: the key 32 bytes before a zero run;
\* three zero runs and no key; zero bytes only; no zero run; the key before
\* the first of two zero runs.
ImgMemories ==
    <<  ImgCells \o <<1, 2, CellZero, CellZero>>,
        <<1, 2, 3, 4, CellZero, CellZero, 5, CellZero, CellZero, CellZero, 6,
          CellZero, CellZero>>,
        <<CellZero, CellZero, CellZero>>,
        <<4, 5, 6, 7, 8>>,
        ImgCells \o <<1, 2, CellZero, CellZero, 3, 4, 5, 6, CellZero, CellZero, 7>>  >>

ImgIds == 1..Len(ImgMemories)

\* e.SearchImgKey(ctx, memory) is called by a caller that is not Extract.
ICall(m) ==
    /\ sc.pc = "idle"
    /\ epc = "idle"
    /\ sruns < MaxRuns
    /\ sruns' = sruns + 1
    /\ slast' = sc
    /\ sc' = [NoDirect EXCEPT
                !.fn = "SearchImgKey", !.mem = m, !.pc = "imgAnchor",
                !.pat = 1, !.index = MemLen(ImgMemories[m]),
                !.ctx0 = parentCancelled,
                !.found0 = foundDerivedKeys,
                !.processed0 = processedImgKeys,
                !.matched0 = matchedDBs,
                !.validated0 = validated.derived]
    /\ UNCHANGED <<valVars, ncalls, envVars, setVars, exVars, chanVars, prodVars, wVars,
                   histVars, mgr>>

\* break out of the inner loop of SearchImgKey
NextImgPattern(c, mem) ==
    IF c.pat < Len(V4ImgKeyPatterns)
    THEN [c EXCEPT !.pat = @ + 1, !.index = Len(mem), !.iters = 0]
    ELSE [c EXCEPT !.pc = "idle"]

\* One turn of the inner loop of SearchImgKey: the poll of the context, the
\* last zero run before index, the start of that run, its offsets, index -= 1.
IAnchor ==
    /\ sc.pc = "imgAnchor"
    /\ LET mem == Bytes(ImgMemories[sc.mem])
           pat == V4ImgKeyPatterns[sc.pat]
           hit == LastIndex(mem, sc.index, pat.Pattern)
           last == IF hit = -1 THEN -1 ELSE LastIndexNonZero(mem, hit)
           index == last + 1
           r == TryImgOffsets(mem, index, pat.Offsets, 1,
                              [processed |-> processedImgKeys, handed |-> {},
                               key |-> NoKey, found |-> FALSE])
           turn == Turn(sc)
       IN  IF parentCancelled
           THEN /\ sc' = [turn EXCEPT !.pc = "idle"]
                /\ UNCHANGED <<processedImgKeys, validated>>
           ELSE IF hit = -1 \/ last = -1
           THEN /\ sc' = NextImgPattern(turn, mem)
                /\ UNCHANGED <<processedImgKeys, validated>>
           ELSE /\ processedImgKeys' = r.processed
                /\ validated' = [validated EXCEPT !.img = @ (+) SetToBag(r.handed)]
                /\ sc' = IF r.found
                         THEN [turn EXCEPT !.pc = "idle", !.rkey = r.key, !.rfound = TRUE,
                                          !.index = index]
                         ELSE IF index - 1 < 0
                         THEN NextImgPattern([turn EXCEPT !.index = index - 1], mem)
                         ELSE [turn EXCEPT !.index = index - 1]
    /\ UNCHANGED <<valVars, ncalls, envVars, processedDataKeys, processedDerivedKeys,
                   foundDerivedKeys, exVars, chanVars, prodVars, wVars, dscan, recvBy,
                   allFoundWithImg, slast, sruns, mgr>>

\* ------------------------------------------------------------- Manager
\* m.ctx before any configuration was loaded, and no command run.
NoManager ==
    [op |-> "none", DataKey |-> NoKey, ImgKey |-> NoKey, Current |-> FALSE,
     WeChatInstances |-> <<>>, pid |-> 0, force |-> FALSE,
     getKey |-> {}, getDataKey |-> 0, decrypted |-> FALSE,
     key |-> NoKey, imgKey |-> NoKey, out |-> "none",
     HTTPEnabled |-> FALSE, Version |-> 0, dbUp |-> FALSE, httpUp |-> FALSE,
     svc |-> "none", spc |-> "idle", log |-> <<>>, enabled0 |-> FALSE,
     serr |-> "none", xorScan |-> FALSE]

\* What a configuration file may hold, and what an instance may hold.
DataKeys == {NoKey, RawKey}
ImgKeys == {NoKey, ImgKey}

\* m.wechat.GetWeChatInstances(): none, one or two processes, with PIDs 1, 2.
MaxInstances == 2
InstanceLists ==
    UNION {[1..n -> [Key : DataKeys, ImgKey : ImgKeys]] : n \in 0..MaxInstances}

\* What GetKey (Extract) answers: both keys, an image key alone, or an error.
GetKeyAnswers ==
    {[key |-> RawKey, imgKey |-> ImgKey, err |-> FALSE],
     [key |-> NoKey, imgKey |-> ImgKey, err |-> FALSE],
     [key |-> NoKey, imgKey |-> NoKey, err |-> TRUE]}

\* Run, on the Manager that New() made: m.ctx, err = ctx.New(configPath);
\* Switch may have selected an account.
MRun(dataKey, imgKeyCfg, current) ==
    /\ mgr.op = "none"
    /\ mgr' = [NoManager EXCEPT !.op = "Run", !.DataKey = dataKey,
                                !.ImgKey = imgKeyCfg, !.Current = current]
    /\ UNCHANGED <<valVars, ncalls, envVars, setVars, exVars, chanVars, prodVars, wVars,
                   histVars, sc, slast, sruns>>

\* Mutant: the keys are only extracted when there is no data key.
NeedsKey_DataKeyOnly(key, img, force) == key = NoKey \/ force

\* if len(key) == 0 || len(imgKey) == 0 || force
NeedsKey(key, img, force) == key = NoKey \/ img = NoKey \/ force

\* The instance whose keys CommandKey shows: the only one, or the one with
\* the PID asked for; 0 when there is none.
Selected(instances, pid) ==
    IF Len(instances) = 1 THEN 1
    ELSE IF pid \in 1..Len(instances) THEN pid
    ELSE 0

\* CommandKey(configPath, pid, force, showXorKey), on the Manager that New()
\* made for the command
MCommandKey(dataKey, imgKeyCfg, instances, pid, force, answer) ==
    /\ mgr.op = "none"
    /\ LET c == [NoManager EXCEPT !.op = "CommandKey", !.DataKey = dataKey,
                                  !.ImgKey = imgKeyCfg, !.WeChatInstances = instances,
                                  !.pid = pid, !.force = force]
           i == Selected(instances, pid)
           key == IF Len(instances) = 1 THEN dataKey ELSE instances[i].Key
           img == IF Len(instances) = 1 THEN imgKeyCfg ELSE instances[i].ImgKey
       IN  mgr' =
             IF Len(instances) = 0
             THEN [c EXCEPT !.out = "wechat process not found"]
             ELSE IF Len(instances) > 1 /\ pid = 0
             THEN [c EXCEPT !.out = "Select a process"]
             ELSE IF i = 0
             THEN [c EXCEPT !.out = "wechat process not found"]
             ELSE IF ~NeedsKey(key, img, force)
             THEN [c EXCEPT !.out = "keys", !.key = key, !.imgKey = img]
             ELSE IF answer.err
             THEN [c EXCEPT !.out = "error", !.getKey = {i}]
             ELSE [c EXCEPT !.out = "keys", !.getKey = {i},
                            !.key = answer.key, !.imgKey = answer.imgKey]
    /\ UNCHANGED <<valVars, ncalls, envVars, setVars, exVars, chanVars, prodVars, wVars,
                   histVars, sc, slast, sruns>>

\* DecryptDBFiles(), on the context Run loaded
MDecryptDBFiles(failed) ==
    /\ mgr.op = "Run"
    /\ mgr' =
         IF mgr.DataKey = NoKey
         THEN IF ~mgr.Current
              THEN [mgr EXCEPT !.op = "DecryptDBFiles", !.out = "no account"]
              ELSE IF failed
              THEN [mgr EXCEPT !.op = "DecryptDBFiles", !.out = "error", !.getDataKey = 1]
              ELSE [mgr EXCEPT !.op = "DecryptDBFiles", !.out = "ok", !.getDataKey = 1,
                               !.decrypted = TRUE]
         ELSE [mgr EXCEPT !.op = "DecryptDBFiles", !.out = "ok", !.decrypted = TRUE]
    /\ UNCHANGED <<valVars, ncalls, envVars, setVars, exVars, chanVars, prodVars, wVars,
                   histVars, sc, slast, sruns>>

\* ---------------------------------------------- Manager, the two services
\* The fields of the Manager record for its services: m.ctx.HTTPEnabled and
\* m.ctx.Version; whether m.db and m.http are running; the call of
\* StartService or StopService in progress (svc, spc), the service calls it
\* made so far with their outcomes (log), HTTPEnabled as the call found it
\* (enabled0) and the error it returns (serr: "nil", or the call that failed).
\* Run, up to the terminal UI: the configuration is loaded and the services
\* are made; every service call after that comes from Run, Switch or the UI.
RLoad(enabled, ver) ==
    /\ mgr.op = "none"
    /\ mgr' = [NoManager EXCEPT !.op = "Run", !.HTTPEnabled = enabled, !.Version = ver]
    /\ UNCHANGED <<valVars, ncalls, envVars, setVars, exVars, chanVars, prodVars, wVars,
                   histVars, sc, slast, sruns>>

\* No call of StartService or StopService is in progress.
ServiceIdle == mgr.op = "Run" /\ mgr.spc \in {"idle", "ret"}

\* A call made to a service, and whether it returned nil.
Called(c, name, ok) == [c EXCEPT !.log = Append(@, <<name, ok>>)]

\* m.StartService() is called.
RStartService ==
    /\ ServiceIdle
    /\ mgr' = [mgr EXCEPT !.svc = "StartService", !.spc = "dbStart", !.log = <<>>,
                          !.enabled0 = mgr.HTTPEnabled, !.serr = "none"]
    /\ UNCHANGED <<valVars, ncalls, envVars, setVars, exVars, chanVars, prodVars, wVars,
                   histVars, sc, slast, sruns>>

\* if err := m.db.Start(); err != nil { return err }
DbStart(c, ok) ==
    IF ok
    THEN [Called(c, "db.Start", ok) EXCEPT !.dbUp = TRUE, !.spc = "httpStart"]
    ELSE [Called(c, "db.Start", ok) EXCEPT !.spc = "ret", !.serr = "db.Start"]

RDbStart(ok) ==
    /\ mgr.spc = "dbStart"
    /\ mgr' = DbStart(mgr, ok)
    /\ UNCHANGED <<valVars, ncalls, envVars, setVars, exVars, chanVars, prodVars, wVars,
                   histVars, sc, slast, sruns>>

\* Mutant: the database is left running when the HTTP service fails.
HttpStart_NoRollback(c, ok) ==
    IF ok
    THEN [Called(c, "http.Start", ok) EXCEPT !.httpUp = TRUE, !.spc = "enable"]
    ELSE [Called(c, "http.Start", ok) EXCEPT !.spc = "ret", !.serr = "http.Start"]

\* if err := m.http.Start(); err != nil { m.db.Stop(); return err }
HttpStart(c, ok) ==
    IF ok
    THEN [Called(c, "http.Start", ok) EXCEPT !.httpUp = TRUE, !.spc = "enable"]
    ELSE [Called(c, "http.Start", ok) EXCEPT !.spc = "rollback"]

RHttpStart(ok) ==
    /\ mgr.spc = "httpStart"
    /\ mgr' = HttpStart(mgr, ok)
    /\ UNCHANGED <<valVars, ncalls, envVars, setVars, exVars, chanVars, prodVars, wVars,
                   histVars, sc, slast, sruns>>

\* Whether a service runs after its Stop(): not when Stop returned nil; when
\* it returned an error, a service that ran before may run on (still).
AfterStop(up, ok, still) == up /\ ~ok /\ still

\* m.db.Stop() (its error is dropped); return err
RRollback(ok, still) ==
    /\ mgr.spc = "rollback"
    /\ mgr' = [Called(mgr, "db.Stop", ok) EXCEPT !.dbUp = AfterStop(@, ok, still),
                                                 !.spc = "ret", !.serr = "http.Start"]
    /\ UNCHANGED <<valVars, ncalls, envVars, setVars, exVars, chanVars, prodVars, wVars,
                   histVars, sc, slast, sruns>>

\* if m.ctx.Version == 4 { ... go dat2img.ScanAndSetXorKey(...) };
\* m.ctx.SetHTTPEnabled(true); return nil
REnable ==
    /\ mgr.spc = "enable"
    /\ mgr' = [mgr EXCEPT !.xorScan = (@ \/ mgr.Version = 4), !.HTTPEnabled = TRUE,
                          !.spc = "ret", !.serr = "nil"]
    /\ UNCHANGED <<valVars, ncalls, envVars, setVars, exVars, chanVars, prodVars, wVars,
                   histVars, sc, slast, sruns>>

\* m.StopService() is called.
RStopService ==
    /\ ServiceIdle
    /\ mgr' = [mgr EXCEPT !.svc = "StopService", !.spc = "httpStop", !.log = <<>>,
                          !.enabled0 = mgr.HTTPEnabled, !.serr = "none"]
    /\ UNCHANGED <<valVars, ncalls, envVars, setVars, exVars, chanVars, prodVars, wVars,
                   histVars, sc, slast, sruns>>

\* stopService: if err := m.http.Stop(); err != nil { errs = append(errs, err) }
RHttpStop(ok, still) ==
    /\ mgr.spc = "httpStop"
    /\ mgr' = [Called(mgr, "http.Stop", ok) EXCEPT !.httpUp = AfterStop(@, ok, still),
                                                   !.spc = "dbStop"]
    /\ UNCHANGED <<valVars, ncalls, envVars, setVars, exVars, chanVars, prodVars, wVars,
                   histVars, sc, slast, sruns>>

\* The first error of stopService, "nil" when both calls returned nil.
FirstError(log) ==
    IF \E n \in 1..Len(log) : ~log[n][2]
    THEN log[CHOOSE n \in 1..Len(log) :
                 ~log[n][2] /\ \A k \in 1..(n - 1) : log[k][2]][1]
    ELSE "nil"

\* stopService: m.db.Stop(), return errs[0]; StopService: return the error,
\* or m.ctx.SetHTTPEnabled(false) and return nil
RDbStop(ok, still) ==
    /\ mgr.spc = "dbStop"
    /\ LET c == [Called(mgr, "db.Stop", ok) EXCEPT !.dbUp = AfterStop(@, ok, still),
                                                   !.spc = "ret"]
       IN  mgr' = [c EXCEPT !.serr = FirstError(c.log),
                            !.HTTPEnabled = IF FirstError(c.log) = "nil" THEN FALSE ELSE @]
    /\ UNCHANGED <<valVars, ncalls, envVars, setVars, exVars, chanVars, prodVars, wVars,
                   histVars, sc, slast, sruns>>

\* ----------------------------------------------------------- specification
\* The state after NewValidator and NewV4Extractor, before Extract is called.
InitWith(versions) ==
    /\ version \in versions
    /\ nExtra \in IF version = 4 THEN 0..MaxExtra ELSE {0}
    /\ totalDBCount = NewValidatorCount(version, nExtra)
    /\ matchedDBs = {}
    /\ matchedCount = 0
    /\ vc = [t \in Threads |-> NoCall]
    /\ ncalls = 0
    /\ procStatus \in {"online", "offline"}
    /\ sipDisabled \in BOOLEAN
    /\ validatorSet \in BOOLEAN
    /\ parentCancelled = FALSE
    /\ processedDataKeys = {}
    /\ processedDerivedKeys = {}
    /\ processedImgKeys = {}
    /\ foundDerivedKeys = {}
    /\ epc = "idle"
    /\ ret = NoRet
    /\ retPath = "none"
    /\ retFound = {}
    /\ finalRawDataKey = NoKey
    /\ finalImgKey = NoKey
    /\ searchCancelled = FALSE
    /\ created = FALSE
    /\ memoryChannel = <<>>
    /\ memClosed = FALSE
    /\ resultChannel = <<>>
    /\ resClosed = FALSE
    /\ ppc = "idle"
    /\ perr = FALSE
    /\ emitted = 0
    /\ wpc = [w \in Threads |-> "idle"]
    /\ wmem = [w \in Threads |-> NoChunk]
    /\ wpos = [w \in Threads |-> 0]
    /\ wci = [w \in Threads |-> 0]
    /\ rawDataKey = [w \in Threads |-> NoKey]
    /\ imgKey = [w \in Threads |-> NoKey]
    /\ dscan = [c \in 1..MaxChunks |-> "none"]
    /\ recvBy = [c \in 1..MaxChunks |-> {}]
    /\ allFoundWithImg = FALSE
    /\ validated = NoneValidated
    /\ sc = NoDirect
    /\ slast = NoDirect
    /\ sruns = 0
    /\ mgr = NoManager

\* Extract of the darwin v4 extractor runs with a version 4 validator.
Init == InitWith({4})

\* A step of the ValidateDerivedKey call a worker is in.
WValidateStep(w) ==
    /\ wpc[w] = "validate"
    /\ VLoad(w) \/ VTest(w) \/ VStore(w) \/ VAdd(w)
    /\ UNCHANGED <<ncalls, pipeVars>>

Next ==
    \/ ExtractStart
    \/ ExtractCtxDone
    \/ ExtractClosed
    \/ ExtractRecv
    \/ ParentCancel
    \/ \E kind \in ChunkKinds : ProducerEmit(kind)
    \/ \E failed \in BOOLEAN : ProducerReturn(failed)
    \/ CloseResults
    \/ \E w \in Threads : WSelectDone(w)
    \/ \E w \in Threads : WRecv(w)
    \/ \E w \in Threads : WRecvClosed(w)
    \/ \E w \in Threads : WCheckAll(w)
    \/ \E w \in Threads : WPollCtx(w)
    \/ \E w \in Threads : WPollAll(w)
    \/ \E w \in Threads : WWindow(w)
    \/ \E w \in Threads : WValidateStep(w)
    \/ \E w \in Threads : WValidated(w)
    \/ \E w \in Threads : WRawCtx(w)
    \/ \E w \in Threads : WRawCand(w)
    \/ \E w \in Threads : WImgCtx(w)
    \/ \E w \in Threads : WImgCand(w)
    \/ \E w \in Threads : WSend(w)
    \/ \E w \in Threads : WSendCancelled(w)

Spec == Init /\ [][Next]_vars

\* -------------------------------------------- validator under concurrent callers
\* Any goroutine may call ValidateDerivedKey with any candidate at any time.
VCall(t, key) ==
    /\ vc[t].pc = "idle"
    /\ ncalls < MaxCalls
    /\ ncalls' = ncalls + 1
    /\ vc' = [vc EXCEPT ![t] = BeginCall(key)]
    /\ UNCHANGED <<version, nExtra, totalDBCount, matchedDBs, matchedCount, pipeVars>>

VReturn(t) ==
    /\ vc[t].pc = "ret"
    /\ vc' = [vc EXCEPT ![t] = NoCall]
    /\ UNCHANGED <<version, nExtra, totalDBCount, matchedDBs, matchedCount, ncalls, pipeVars>>

VStep(t) ==
    /\ VLoad(t) \/ VTest(t) \/ VStore(t) \/ VAdd(t)
    /\ UNCHANGED <<ncalls, pipeVars>>

InitV ==
    /\ InitWith({3, 4})
    /\ procStatus = "online"
    /\ sipDisabled
    /\ validatorSet

NextV ==
    \/ \E t \in Threads, key \in CandidateKeys : VCall(t, key)
    \/ \E t \in Threads : VStep(t)
    \/ \E t \in Threads : VReturn(t)

SpecV == InitV /\ [][NextV]_vars

\* ------------------------------------ the search functions under direct callers
\* One goroutine calls the search functions of an extractor one after the
\* other, as the tests do; the context it passes may be cancelled at any time.
InitS ==
    /\ InitWith({4})
    /\ procStatus = "online"
    /\ sipDisabled
    /\ validatorSet

NextS ==
    \/ ParentCancel
    \/ \E fn \in DerivedFns, m \in TestIds : SCall(fn, m)
    \/ SPoll
    \/ SWindow
    \/ SReturn
    \/ \E m \in KeyIds : KCall(m)
    \/ KAnchor
    \/ \E m \in ImgIds : ICall(m)
    \/ IAnchor

SpecS == InitS /\ [][NextS]_vars

\* ------------------------------------------------ the goroutines, scheduled fairly
\* Every goroutine that can run is run in the end.  An extractor is driven by
\* Extract, or one of its scans is run by a direct caller on a chunk that
\* reaches past the second poll.
WorkerStep(w) ==
    \/ WSelectDone(w) \/ WRecv(w) \/ WRecvClosed(w) \/ WCheckAll(w) \/ WPollCtx(w)
    \/ WPollAll(w) \/ WWindow(w) \/ WValidateStep(w) \/ WValidated(w) \/ WRawCtx(w)
    \/ WRawCand(w) \/ WImgCtx(w) \/ WImgCand(w) \/ WSend(w) \/ WSendCancelled(w)

ScanStep == SPoll \/ SWindow \/ SReturn

ExtractStartFresh == sruns = 0 /\ ExtractStart

\* The chunks of the runs whose termination is checked: one with a derived
\* key, one with a raw key and an image key, one with an image key only.
LiveChunkKinds ==
    {Chunk(<<JunkKey, DerivedKeyOf(PrimaryIdx)>>, <<>>, <<>>),
     Chunk(<<JunkKey>>, << <<RawKey>> >>, << <<ImgKey>> >>),
     Chunk(<<ZeroWin>>, <<>>, << <<JunkImg>>, <<ImgKey>> >>)}

NextL ==
    \/ ExtractStartFresh
    \/ ExtractCtxDone
    \/ ExtractClosed
    \/ ExtractRecv
    \/ ParentCancel
    \/ \E kind \in LiveChunkKinds : ProducerEmit(kind)
    \/ \E failed \in BOOLEAN : ProducerReturn(failed)
    \/ CloseResults
    \/ \E w \in Threads : WSelectDone(w)
    \/ \E w \in Threads : WRecv(w)
    \/ \E w \in Threads : WRecvClosed(w)
    \/ \E w \in Threads : WCheckAll(w)
    \/ \E w \in Threads : WPollCtx(w)
    \/ \E w \in Threads : WPollAll(w)
    \/ \E w \in Threads : WWindow(w)
    \/ \E w \in Threads : WValidateStep(w)
    \/ \E w \in Threads : WValidated(w)
    \/ \E w \in Threads : WRawCtx(w)
    \/ \E w \in Threads : WRawCand(w)
    \/ \E w \in Threads : WImgCtx(w)
    \/ \E w \in Threads : WImgCand(w)
    \/ \E w \in Threads : WSend(w)
    \/ \E w \in Threads : WSendCancelled(w)
    \/ \E m \in {LongId, LongKeyId} : SCall("SearchAllDerivedKeys", m)
    \/ SPoll
    \/ SWindow
    \/ SReturn

\* The preconditions of Extract hold and the validator knows one database.
InitL ==
    /\ Init
    /\ nExtra = 0
    /\ procStatus = "online"
    /\ sipDisabled
    /\ validatorSet

SpecL ==
    /\ InitL
    /\ [][NextL]_vars
    /\ \A w \in Threads : WF_vars(WorkerStep(w))
    /\ WF_vars(ScanStep)

\* One run of Extract with every goroutine scheduled fairly: Extract's own
\* select loop, the producer (findMemory returns in the end), the goroutine
\* that closes the result channel, and the workers.
ExtractStep == ExtractCtxDone \/ ExtractClosed \/ ExtractRecv

ProducerDone == \E failed \in BOOLEAN : ProducerReturn(failed)

NextE ==
    \/ ExtractStart
    \/ ExtractCtxDone
    \/ ExtractClosed
    \/ ExtractRecv
    \/ ParentCancel
    \/ \E kind \in LiveChunkKinds : ProducerEmit(kind)
    \/ \E failed \in BOOLEAN : ProducerReturn(failed)
    \/ CloseResults
    \/ \E w \in Threads : WSelectDone(w)
    \/ \E w \in Threads : WRecv(w)
    \/ \E w \in Threads : WRecvClosed(w)
    \/ \E w \in Threads : WCheckAll(w)
    \/ \E w \in Threads : WPollCtx(w)
    \/ \E w \in Threads : WPollAll(w)
    \/ \E w \in Threads : WWindow(w)
    \/ \E w \in Threads : WValidateStep(w)
    \/ \E w \in Threads : WValidated(w)
    \/ \E w \in Threads : WRawCtx(w)
    \/ \E w \in Threads : WRawCand(w)
    \/ \E w \in Threads : WImgCtx(w)
    \/ \E w \in Threads : WImgCand(w)
    \/ \E w \in Threads : WSend(w)
    \/ \E w \in Threads : WSendCancelled(w)

SpecE ==
    /\ InitL
    /\ [][NextE]_vars
    /\ WF_vars(ExtractStep)
    /\ WF_vars(ProducerDone)
    /\ WF_vars(CloseResults)
    /\ \A w \in Threads : WF_vars(WorkerStep(w))

\* The commands of the Manager, on any configuration and any set of processes.
NextM ==
    \/ \E dataKey \in DataKeys, img \in ImgKeys, current \in BOOLEAN :
          MRun(dataKey, img, current)
    \/ \E dataKey \in DataKeys, img \in ImgKeys, instances \in InstanceLists,
          pid \in 0..(MaxInstances + 1), force \in BOOLEAN, answer \in GetKeyAnswers :
          MCommandKey(dataKey, img, instances, pid, force, answer)
    \/ \E failed \in BOOLEAN : MDecryptDBFiles(failed)

SpecM == InitL /\ [][NextM]_vars

\* The services of a Manager that Run has set up: StartService and
\* StopService are called one after the other, in any order, and every call
\* to a service may fail.
NextR ==
    \/ \E enabled \in BOOLEAN, ver \in {3, 4} : RLoad(enabled, ver)
    \/ RStartService
    \/ \E ok \in BOOLEAN : RDbStart(ok)
    \/ \E ok \in BOOLEAN : RHttpStart(ok)
    \/ \E ok, still \in BOOLEAN : RRollback(ok, still)
    \/ REnable
    \/ RStopService
    \/ \E ok, still \in BOOLEAN : RHttpStop(ok, still)
    \/ \E ok, still \in BOOLEAN : RDbStop(ok, still)

SpecR == InitL /\ [][NextR]_vars

\* ------------------------------------------------------------------ claims
Returned == epc = "returned"

\* dataKey is "derived:" followed by exactly the keys of S, each once.
IsDerivedStringOf(dataKey, S) ==
    /\ Len(dataKey) = 1 + Cardinality(S)
    /\ dataKey[1] = "derived:"
    /\ {dataKey[i] : i \in 2..Len(dataKey)} = S

\* C1 (as stated): on every successful return of Extract with foundDerivedKeys
\* non-empty at that moment, dataKey is "derived:" plus exactly those keys.
C1_DerivedOnEveryReturn ==
    (Returned /\ ret.err = ErrNil /\ retFound # {})
        => IsDerivedStringOf(ret.dataKey, retFound)

\* C1 (amended): on the return taken when the result channel is closed, dataKey
\* is "derived:" plus exactly the keys of foundDerivedKeys when that set is
\* non-empty and the received raw key (or "") when it is empty; on the early
\* return (raw key and image key both received) dataKey is the raw key.
C1_DerivedOnClosedReturn ==
    /\ (Returned /\ retPath = "closed" /\ ret.err = ErrNil) =>
          IF retFound # {}
          THEN IsDerivedStringOf(ret.dataKey, retFound)
          ELSE ret.dataKey = KeyString(finalRawDataKey)
    /\ (Returned /\ retPath = "early") =>
          /\ finalRawDataKey # NoKey
          /\ ret.dataKey = <<finalRawDataKey>>

C1_Witness ==
    /\ Returned
    /\ retPath = "closed"
    /\ finalRawDataKey # NoKey
    /\ retFound # {}
    /\ ret.dataKey \in {<<"derived:", k>> : k \in retFound}

\* C2 (as stated): a nil-error return always carries a non-empty dataKey.
C2_NilErrorHasDataKey ==
    (Returned /\ ret.err = ErrNil) => ret.dataKey # <<>>

\* C2 (amended): on the closed-channel return Extract reports ErrNoValidKey
\* exactly when no raw key and no image key was received and no derived key
\* was found; a nil-error return carries a non-empty dataKey or a non-empty
\* imgKey, and with only an image key it is ("", imgKey, nil).
C2_NoValidKeyWhenNothing ==
    /\ (Returned /\ retPath = "closed") =>
          /\ ret.err = ErrNoValidKey
                <=> (finalRawDataKey = NoKey /\ retFound = {} /\ finalImgKey = NoKey)
          /\ ret.err \in {ErrNil, ErrNoValidKey}
          /\ ret.imgKey = (IF ret.err = ErrNil THEN finalImgKey ELSE NoKey)
    /\ (Returned /\ ret.err = ErrNil) => (ret.dataKey # <<>> \/ ret.imgKey # NoKey)
    /\ (Returned /\ ret.err = ErrNoValidKey) => (ret.dataKey = <<>> /\ retPath = "closed")

C2_Witness ==
    /\ Returned
    /\ retPath = "closed"
    /\ ret = [dataKey |-> <<>>, imgKey |-> ImgKey, err |-> ErrNil]

\* A derived-key scan was ended by the poll of the context.
DerivedScanCut == \E c \in 1..MaxChunks : dscan[c] = "cancelled"

\* A worker returned although chunks were still to come or to be read.
WorkerLeftEarly ==
    \E w \in Threads : wpc[w] = "done" /\ ~(memClosed /\ memoryChannel = <<>>)

\* C3 (as stated): unless the caller cancels, while a database is unmatched no
\* derived-key scan is cut short and no worker leaves before the producer has
\* closed the chunk channel and it is drained, whatever keys were found.
C3_DerivedScanNeverCut ==
    (~parentCancelled /\ ~AllDerivedKeysFound)
        => (~DerivedScanCut /\ ~WorkerLeftEarly)

\* C3 (amended): the same, as long as the orchestrator has not received both a
\* raw key and an image key: a raw key alone never stops the derived-key search.
C3_DerivedScanCutOnlyByPair ==
    (~parentCancelled /\ ~AllDerivedKeysFound
        /\ ~(finalRawDataKey # NoKey /\ finalImgKey # NoKey))
        => (~DerivedScanCut /\ ~WorkerLeftEarly)

C3_Witness ==
    /\ Returned
    /\ retPath = "closed"
    /\ finalRawDataKey # NoKey
    /\ ~AllDerivedKeysFound
    /\ emitted = MaxChunks
    /\ \A c \in 1..MaxChunks : dscan[c] = "full"

\* C4: with a raw key and an image key both received, Extract is never back in
\* its select: it has cancelled the search context and returned
\* (rawKey, imgKey, nil) on the early path.
C4_EarlyReturn ==
    (finalRawDataKey # NoKey /\ finalImgKey # NoKey) =>
        /\ Returned
        /\ retPath = "early"
        /\ searchCancelled
        /\ ret = [dataKey |-> <<finalRawDataKey>>, imgKey |-> finalImgKey, err |-> ErrNil]

C4_Witness ==
    /\ Returned
    /\ retPath = "early"
    /\ ppc = "running"
    /\ ~resClosed
    /\ \E w1, w2 \in Threads :
          /\ rawDataKey[w1] # NoKey /\ imgKey[w1] = NoKey
          /\ rawDataKey[w2] = NoKey /\ imgKey[w2] # NoKey

\* C5 (as stated): once an image key was received while AllDerivedKeysFound
\* held, the search context is cancelled.
C5_CancelOnAllDerivedAndImg == allFoundWithImg => searchCancelled

\* C5 (amended): the search context is cancelled only by a return of Extract,
\* and the early return needs a raw key and an image key; once
\* AllDerivedKeysFound holds the derived-key scan of a chunk is skipped or
\* stopped, and only then.
C5_CancelOnlyOnReturn ==
    /\ searchCancelled => (Returned /\ retPath \in {"early", "closed", "ctx"})
    /\ (Returned /\ retPath = "early") => (finalRawDataKey # NoKey /\ finalImgKey # NoKey)
    /\ \A c \in 1..MaxChunks : dscan[c] \in {"skipped", "allfound"} => AllDerivedKeysFound

C5_Witness ==
    /\ allFoundWithImg
    /\ epc = "select"
    /\ ~SearchDone
    /\ \E w \in Threads : wpc[w] \in {"rawCand", "imgCand"} /\ dscan[wmem[w].id] = "skipped"

\* C6: when the producer returned an error the search context is cancelled,
\* and Extract does not then return a nil error.
C6_ProducerErrorCancels ==
    /\ (ppc = "done" /\ perr) => SearchDone
    /\ (Returned /\ perr) => ret.err # ErrNil

\* The error Extract refuses with, by the order of its checks.
ExpectedRefusal ==
    IF procStatus = "offline" THEN ErrWeChatOffline
    ELSE IF ~sipDisabled THEN ErrSIPEnabled
    ELSE ErrValidatorNotSet

NothingStarted ==
    /\ ~created
    /\ ppc = "idle"
    /\ \A w \in Threads : wpc[w] = "idle"
    /\ memoryChannel = <<>> /\ resultChannel = <<>> /\ ~memClosed /\ ~resClosed
    /\ ~searchCancelled

SetsUntouched ==
    /\ processedDataKeys = {}
    /\ processedDerivedKeys = {}
    /\ processedImgKeys = {}
    /\ foundDerivedKeys = {}

\* C7: with the process offline, SIP enabled or no validator set, Extract
\* returns the error of the first failing check, and nothing was created,
\* started or stored.
C7_RefusesBeforeWork ==
    (procStatus = "offline" \/ ~sipDisabled \/ ~validatorSet) =>
        /\ NothingStarted
        /\ SetsUntouched
        /\ Returned => ret = [dataKey |-> <<>>, imgKey |-> NoKey, err |-> ExpectedRefusal]

C7_Witness ==
    /\ Returned
    /\ procStatus = "online"
    /\ ~sipDisabled
    /\ ~validatorSet
    /\ ret.err = ErrSIPEnabled

\* C8: matchedCount <= number of marked indices <= totalDBCount, and
\* matchedCount equals the number of marked indices when no call is between
\* its LoadOrStore and its increment (in particular when no call is running).
C8_CountOncePerIndex ==
    /\ matchedCount <= Cardinality(matchedDBs)
    /\ Cardinality(matchedDBs) <= totalDBCount
    /\ (\A t \in Threads : vc[t].pc # "add") => matchedCount = Cardinality(matchedDBs)

C8_Witness ==
    /\ matchedCount = 1
    /\ Cardinality(matchedDBs) = 1
    /\ \E t1, t2 \in Threads :
          /\ t1 # t2
          /\ vc[t1].pc = "ret" /\ vc[t1].ret /\ vc[t1].bumped = 1
          /\ vc[t2].pc = "ret" /\ vc[t2].ret /\ vc[t2].bumped = 0
          /\ vc[t1].idx = vc[t2].idx

\* C9: AllDerivedKeysFound is true exactly when totalDBCount > 0 and
\* matchedCount = totalDBCount; it is false with totalDBCount = 0 and while an
\* index is unmatched.
C9_AllFoundIff ==
    /\ AllDerivedKeysFound <=> (totalDBCount > 0 /\ matchedCount = totalDBCount)
    /\ totalDBCount = 0 => ~AllDerivedKeysFound
    /\ AllDerivedKeysFound => DBIndices(nExtra) \subseteq matchedDBs

C9_Witness ==
    /\ AllDerivedKeysFound
    /\ totalDBCount = 2
    /\ matchedDBs = {PrimaryIdx, 0}

IsAscending(s) == \A i, j \in 1..Len(s) : i < j => s[i] < s[j]
Elements(s) == {s[i] : i \in 1..Len(s)}

\* What C10 says of a call apart from the skipping of matched databases: the
\* databases are tested in index order, primary first; a call that returns
\* true stopped at the first database that authenticates, which is marked, and
\* stored no other index; a call that returns false stored and counted nothing.
CallOutcomeOk(c) ==
    /\ IsAscending(c.tested)
    /\ Elements(c.tested) \subseteq DBIndices(nExtra)
    /\ (c.pc = "ret" /\ c.ret) =>
          /\ c.tested # <<>>
          /\ c.tested[Len(c.tested)] = c.idx
          /\ \A i \in Elements(c.tested) : DvValidateDerivedKey(i, c.key) <=> i = c.idx
          /\ c.idx \in matchedDBs
          /\ c.wrote \subseteq {c.idx}
    /\ (c.pc = "ret" /\ ~c.ret) =>
          /\ c.wrote = {}
          /\ c.bumped = 0
          /\ \A i \in Elements(c.tested) : ~DvValidateDerivedKey(i, c.key)

\* C10 (as stated): a call never tests a database whose index is marked
\* matched, and its order and outcome are as described.
C10_NeverTestsMatched ==
    \A t \in Threads :
        /\ vc[t].pc = "test" => vc[t].idx \notin matchedDBs
        /\ CallOutcomeOk(vc[t])

\* C10 (amended): a call tests only databases that its own Load found
\* unmarked (another call may mark the index between that Load and the test),
\* and a database it found marked is not tested; order and outcome as described.
C10_TestsOnlySeenUnmatched ==
    \A t \in Threads :
        /\ vc[t].pc = "test" => vc[t].idx \in vc[t].seen
        /\ Elements(vc[t].tested) \subseteq vc[t].seen
        /\ CallOutcomeOk(vc[t])

C10_Witness ==
    \E t \in Threads :
        /\ vc[t].pc = "ret"
        /\ vc[t].ret
        /\ vc[t].tested = <<PrimaryIdx, 0>>
        /\ vc[t].key = DerivedKeyOf(0)

\* ---- C11
\* The candidates a direct scan may hand to the validator between two polls.
PollWindows == PollInterval \div Stride

AllWorkersReturned == \A w \in Threads : wpc[w] = "done"

ScanReturned == sc.pc = "idle"

\* C11 (as stated, its count): a scan hands fewer than 1024 candidates to the
\* validator after the cancellation: never were 1024 candidates since the
\* last poll all handed over with the context already cancelled.
C11_FewerThan1024 ==
    ~(parentCancelled /\ sc.allLate /\ sc.sincePoll >= 1024)

\* C11 (amended): once the search context is cancelled every worker returns
\* in the end, and so does a scan run by a direct caller; a scan that finds
\* the context cancelled at a poll stops there, so what it hands to the
\* validator after the cancellation are candidates since its last poll, and
\* these are at most 1024 (one per window up to the next multiple of 8192).
C11_StopsAtNextPoll ==
    /\ [](~sc.stale /\ sc.sincePoll <= PollWindows)
    /\ [](sc.pc = "window" => sc.sincePoll <= (sc.pos % PollInterval) \div Stride)
    /\ (created /\ SearchDone) ~> AllWorkersReturned
    /\ (parentCancelled /\ sruns > 0) ~> ScanReturned

C11_Witness ==
    /\ parentCancelled
    /\ sc.pc = "ret"
    /\ sc.pos = PollInterval
    /\ sc.allLate
    /\ sc.sincePoll = PollWindows

\* ---- C12
\* A direct call has been made, and this is what is known of the latest one.
DirectCalled == sc.fn \in DerivedFns

DirectReturned == DirectCalled /\ sc.pc = "idle"

\* The chunk of the latest call holds the key of a database that was unmatched
\* and unprocessed when the call was made.
KeyOfferedIn(c) ==
    \E i \in DBIndices(nExtra) :
        /\ i \notin c.matched0
        /\ DerivedKeyOf(i) \notin c.processed0
        /\ \E pos \in {Stride * n : n \in 0..Len(MemoryTable[c.mem])} :
              /\ pos + KeyLen <= MemLen(MemoryTable[c.mem])
              /\ WindowKey(MemoryTable[c.mem], pos) = DerivedKeyOf(i)

\* C12: a call of SearchAllDerivedKeys or SearchDerivedKey whose context was
\* already cancelled when it was made hands nothing to the validator, counts
\* nothing, returns no key, and leaves processedDerivedKeys, foundDerivedKeys
\* and the validator's matched indices and count as they were.
C12_CancelledCallDoesNothing ==
    (DirectCalled /\ sc.ctx0) =>
        /\ sc.count = 0
        /\ ~sc.rfound
        /\ sc.rkey = NoKey
        /\ SubmittedInCall = EmptyBag
        /\ processedDerivedKeys = sc.processed0
        /\ foundDerivedKeys = sc.found0
        /\ matchedDBs = sc.matched0
        /\ matchedCount = Cardinality(sc.matched0)

C12_Witness ==
    /\ DirectReturned
    /\ sc.fn = "SearchDerivedKey"
    /\ sc.ctx0
    /\ sc.mem = 1
    /\ KeyOfferedIn(sc)
    /\ sc.pos = 0

\* ---- C13
\* No key was handed more than once to the validation of the given kind.
AtMostOnce(bag) == \A k \in BagToSet(bag) : CopiesIn(k, bag) = 1

\* C13: in any interleaving of the workers a candidate is handed at most once
\* to Validate, at most once to ValidateDerivedKey and at most once to
\* ValidateImgKey, and the three processed sets and foundDerivedKeys only
\* grow: no step removes an entry.
C13_OncePerCandidate ==
    /\ [](AtMostOnce(validated.raw) /\ AtMostOnce(validated.derived)
            /\ AtMostOnce(validated.img))
    /\ [][/\ processedDataKeys \subseteq processedDataKeys'
          /\ processedDerivedKeys \subseteq processedDerivedKeys'
          /\ processedImgKeys \subseteq processedImgKeys'
          /\ foundDerivedKeys \subseteq foundDerivedKeys']_vars

\* Two workers scanned chunks that hold the same window, to the end.
C13_Witness ==
    \E w1, w2 \in Threads :
        /\ wmem[w1].id = 1 /\ wmem[w2].id = 2
        /\ w1 # w2
        /\ dscan[1] = "full" /\ dscan[2] = "full"
        /\ \E k \in Elements(wmem[w1].win) \cap Elements(wmem[w2].win) :
              /\ k # ZeroWin
              /\ CopiesIn(k, validated.derived) = 1
              /\ k \in foundDerivedKeys

\* ---- C14
\* The latest direct call came right after another one on the same chunk, and
\* the context was cancelled in neither.
SecondRunOnChunk ==
    /\ DirectCalled
    /\ slast.fn \in DerivedFns
    /\ slast.mem = sc.mem
    /\ ~parentCancelled

\* C14: the second of two successive runs of SearchAllDerivedKeys on one chunk,
\* context not cancelled, hands nothing to ValidateDerivedKey, counts no
\* finding, and leaves foundDerivedKeys as the first run left it.
C14_SecondRunIdle ==
    SecondRunOnChunk =>
        /\ SubmittedInCall = EmptyBag
        /\ sc.count = 0
        /\ foundDerivedKeys = sc.found0
        /\ processedDerivedKeys = sc.processed0

\* The first run found the key of the chunk, a database is still unmatched,
\* and the second run went through every window of the chunk.
C14_Witness ==
    /\ SecondRunOnChunk
    /\ DirectReturned
    /\ sc.fn = "SearchAllDerivedKeys" /\ slast.fn = "SearchAllDerivedKeys"
    /\ sc.mem = 2
    /\ slast.count = 1
    /\ ~AllDerivedKeysFound
    /\ sc.pos + KeyLen > MemLen(MemoryTable[sc.mem])
    /\ foundDerivedKeys = {DerivedKeyOf(PrimaryIdx)}

\* ---- C15
\* The chunk holds the FTS5 pattern at some p and, at [p+16, p+48), a key
\* that Validate accepts and that has no two zero bytes in a row.
RawKeyAfterFTS(mem) ==
    \E p \in 0..Len(mem) :
        /\ MatchAt(mem, p, FTSPattern)
        /\ ~OutOfChunk(mem, p + 16)
        /\ ~ContainsTwoZeros(mem, p + 16)
        /\ Validate(HexAt(mem, p + 16))

SearchKeyReturned == sc.fn = "SearchKey" /\ sc.pc = "idle"

\* C15: a call of SearchKey, context not cancelled, on a chunk that holds the
\* FTS5 pattern 16 bytes before a valid raw key not yet in processedDataKeys
\* returns found with a key that Validate accepts, and hands nothing to
\* ValidateDerivedKey.
C15_FindsKeyAfterFTS ==
    (/\ SearchKeyReturned
     /\ ~parentCancelled
     /\ RawKeyAfterFTS(Bytes(KeyMemories[sc.mem]))
     /\ RawKey \notin sc.processed0)
        => /\ sc.rfound
           /\ Validate(sc.rkey)
           /\ validated.derived = sc.validated0

\* ---- C16
\* The offsets 0, 8, 16, ... at which a 32-byte window lies wholly inside.
WindowOffsets(cells) ==
    {pos \in {Stride * n : n \in 0..Len(cells)} : pos + KeyLen <= MemLen(cells)}

\* The windows of the chunk with at most 24 zero bytes, as hex strings.
DenseWindows(cells) ==
    {Hex(Slice(cells, pos, KeyLen)) :
        pos \in {q \in WindowOffsets(cells) : ZeroCount(Slice(cells, q, KeyLen)) <= ZeroLimit}}

\* The keys of databases unmatched when the call was made that the chunk
\* holds at one of these offsets and that were not yet processed.
KeysOffered(c) ==
    {DerivedKeyOf(i) : i \in DBIndices(nExtra) \ c.matched0}
        \cap (DenseWindows(MemoryTable[c.mem]) \ c.processed0)

\* The scan of the latest call went through the whole chunk and returned.
ScannedToEnd ==
    /\ DirectReturned
    /\ sc.pos + KeyLen > MemLen(MemoryTable[sc.mem])

\* C16: a scan that went through the whole chunk handed to the validator
\* exactly the windows at offsets 0, 8, 16, ... wholly inside the chunk that
\* have at most 24 zero bytes and were not in processedDerivedKeys, each once;
\* a chunk shorter than 32 bytes and an all-zero chunk give none; the key of
\* an unmatched database at any such offset is in foundDerivedKeys, and the
\* count returned is the number of keys the call added.  A scan in progress
\* has handed over only such windows.
C16_ExactCandidates ==
    /\ DirectCalled =>
          /\ AtMostOnce(SubmittedInCall)
          /\ BagToSet(SubmittedInCall)
                \subseteq DenseWindows(MemoryTable[sc.mem]) \ sc.processed0
    /\ ScannedToEnd =>
          /\ BagToSet(SubmittedInCall) = DenseWindows(MemoryTable[sc.mem]) \ sc.processed0
          /\ KeysOffered(sc) \subseteq foundDerivedKeys
          /\ sc.count = Cardinality(foundDerivedKeys \ sc.found0)
          /\ MemLen(MemoryTable[sc.mem]) < KeyLen => SubmittedInCall = EmptyBag
          /\ (\A n \in 1..Len(MemoryTable[sc.mem]) : MemoryTable[sc.mem][n] = CellZero)
                => SubmittedInCall = EmptyBag

\* The key sits at offset 8, which is no multiple of 16, and was found.
C16_Witness ==
    /\ ScannedToEnd
    /\ sc.fn = "SearchAllDerivedKeys"
    /\ sc.mem = 2
    /\ WindowKey(MemoryTable[sc.mem], Stride) = DerivedKeyOf(PrimaryIdx)
    /\ sc.count = 1
    /\ DerivedKeyOf(PrimaryIdx) \in foundDerivedKeys \ sc.found0
    /\ Cardinality(BagToSet(SubmittedInCall)) = 3

\* ---- C17
\* C17: when SearchDerivedKey returns (k, true), k is the hex string of a
\* window of the chunk it was called on that ValidateDerivedKey accepted
\* during this call, whatever foundDerivedKeys held before the call.
C17_ReturnsKeyOfThisCall ==
    (DirectReturned /\ sc.fn = "SearchDerivedKey" /\ sc.rfound) =>
        /\ sc.rkey \in DenseWindows(MemoryTable[sc.mem])
        /\ sc.rkey \in BagToSet(SubmittedInCall)
        /\ sc.rkey \in foundDerivedKeys \ sc.found0

\* ---- C18
\* C18 (as stated): with a data key in the configuration and extraction not
\* forced, neither CommandKey nor DecryptDBFiles calls GetKey or GetDataKey.
C18_SkipsWithDataKey ==
    (mgr.op \in {"CommandKey", "DecryptDBFiles"} /\ mgr.DataKey # NoKey /\ ~mgr.force)
        => (mgr.getKey = {} /\ mgr.getDataKey = 0)

\* The keys CommandKey looks at: those of the configuration when there is one
\* process, those of the process selected by pid when there are several.
KeysLookedAt ==
    LET i == Selected(mgr.WeChatInstances, mgr.pid)
    IN  IF Len(mgr.WeChatInstances) = 1
        THEN [Key |-> mgr.DataKey, ImgKey |-> mgr.ImgKey]
        ELSE mgr.WeChatInstances[i]

\* C18 (amended): DecryptDBFiles calls GetDataKey only when the context holds
\* no data key.  CommandKey, for the process it shows the keys of, calls
\* GetKey exactly when the data key or the image key it looks at is empty or
\* force is set: a data key alone does not make it skip the extraction, and
\* with several processes the keys of the configuration are not looked at.
C18_SkipsWithBothKeys ==
    /\ mgr.op = "DecryptDBFiles" =>
          /\ mgr.getKey = {}
          /\ mgr.getDataKey = 1 <=> (mgr.DataKey = NoKey /\ mgr.Current)
          /\ mgr.getDataKey \in {0, 1}
    /\ mgr.op = "CommandKey" =>
          /\ mgr.getDataKey = 0
          /\ mgr.out \in {"keys", "error"} =>
                /\ Selected(mgr.WeChatInstances, mgr.pid) # 0
                /\ mgr.getKey # {} <=>
                      (KeysLookedAt.Key = NoKey \/ KeysLookedAt.ImgKey = NoKey \/ mgr.force)
                /\ mgr.getKey \subseteq {Selected(mgr.WeChatInstances, mgr.pid)}
          /\ mgr.out \notin {"keys", "error"} => mgr.getKey = {}

\* One process, both keys in the configuration, not forced: the keys shown
\* are those of the configuration and GetKey was not called.
C18_Witness ==
    /\ mgr.op = "CommandKey"
    /\ Len(mgr.WeChatInstances) = 1
    /\ mgr.DataKey = RawKey /\ mgr.ImgKey = ImgKey
    /\ ~mgr.force
    /\ mgr.getKey = {}
    /\ mgr.out = "keys"
    /\ mgr.key = RawKey /\ mgr.imgKey = ImgKey

\* ---- C19
\* C19: the result channel is closed once, by a step taken when the producer
\* has closed the chunk channel and every worker has returned, and it stays
\* closed; so while it is closed no worker is at a send (or anywhere else but
\* returned), whether Extract returned early, the caller cancelled, or not.
C19_ClosedAfterAll ==
    /\ [](resClosed =>
            /\ memClosed
            /\ ppc = "done"
            /\ AllWorkersReturned)
    /\ [](\A w \in Threads : wpc[w] \in {"rawSend", "imgSend"} => ~resClosed)
    /\ [][resClosed' # resClosed =>
            /\ ~resClosed
            /\ memClosed /\ ppc = "done" /\ AllWorkersReturned
            /\ wpc' = wpc]_vars

\* Closed after an early return that left a worker's message unread.
C19_Witness ==
    /\ resClosed
    /\ Returned
    /\ retPath = "early"
    /\ parentCancelled
    /\ resultChannel # <<>>

\* ---- C20
DerivedReturned ==
    /\ Returned
    /\ ret.dataKey # <<>>
    /\ ret.dataKey[1] = "derived:"

\* C20: whenever Extract has returned a "derived:" dataKey, the producer has
\* closed the chunk channel, every worker has returned and no validator call
\* is under way, so foundDerivedKeys is still the set the list was built from
\* and the list holds each of its keys.
C20_DerivedListComplete ==
    DerivedReturned =>
        /\ retPath = "closed"
        /\ memClosed /\ ppc = "done" /\ resClosed
        /\ AllWorkersReturned
        /\ \A t \in Threads : vc[t].pc \in {"idle", "ret"}
        /\ foundDerivedKeys = retFound
        /\ IsDerivedStringOf(ret.dataKey, foundDerivedKeys)

\* Two derived keys, and no raw key, were found in the run.
C20_Witness ==
    /\ DerivedReturned
    /\ finalRawDataKey = NoKey
    /\ Len(ret.dataKey) = 3
    /\ Cardinality(foundDerivedKeys) = 2
    /\ emitted = MaxChunks

\* ---- C21
\* Extract returned on the closed result channel and nothing was cancelled
\* before.
ClosedUncancelled == Returned /\ retPath = "closed" /\ ~parentCancelled

\* The worker's turn on the chunk ran through its derived-key stage without
\* being cut by the context (the scan was made to the end, or left out or
\* stopped because every database was matched).
ProcessedChunk(c) == dscan[c] \in {"full", "skipped", "allfound"}

\* C21: a chunk is received by at most one worker, and only a chunk that was
\* sent is received; when Extract has returned on the closed result channel
\* with no cancellation before, each chunk sent was received by one worker,
\* which went through it and holds it no more.
C21_ChunkToOneWorker ==
    /\ \A c \in 1..MaxChunks :
          /\ Cardinality(recvBy[c]) <= 1
          /\ recvBy[c] # {} => c <= emitted
    /\ ClosedUncancelled =>
          /\ memoryChannel = <<>>
          /\ \A c \in 1..emitted :
                /\ Cardinality(recvBy[c]) = 1
                /\ ProcessedChunk(c)
          /\ \A w \in Threads : wmem[w] = NoChunk /\ wpc[w] = "done"

\* Two chunks were sent and went to two different workers.
C21_Witness ==
    /\ ClosedUncancelled
    /\ emitted = MaxChunks
    /\ recvBy[1] # recvBy[2]
    /\ dscan[1] = "full"
    /\ dscan[2] = "full"
    /\ ~perr

\* ---- C22
\* The keys ValidateDerivedKey was given or accepted, and the derived: prefix.
DerivedStrings == BagToSet(validated.derived) \cup foundDerivedKeys \cup {"derived:"}

NoWorkerHoldsKey == \A w \in Threads : rawDataKey[w] = NoKey /\ imgKey[w] = NoKey

Publishes(w) ==
    /\ wpc[w] \in {"rawSend", "imgSend"}
    /\ wpc'[w] # wpc[w]
    /\ Len(resultChannel') > Len(resultChannel)

Published == resultChannel'[Len(resultChannel')]

\* C23 (as stated): the message published after a raw-key search that
\* succeeded is (rawKey, ""), the one after an image-key search that
\* succeeded is ("", imgKey).
C23_OneKeyPerMessage ==
    [][\A w \in Threads : Publishes(w) =>
          Published = IF wpc[w] = "rawSend"
                      THEN <<rawDataKey[w], NoKey>>
                      ELSE <<NoKey, imgKey[w]>>]_vars

\* C23 (amended): both messages are (rawDataKey, imgKey), the two keys the
\* worker holds: after a raw-key search that succeeded the raw component is
\* the key just found and the image component is the image key the worker
\* found before, or ""; after an image-key search that succeeded the image
\* component is the key just found and the raw component is the raw key the
\* worker found before (on this chunk or an earlier one), or "".
C23_BothKeysHeld ==
    /\ [](\A w \in Threads :
            /\ wpc[w] = "rawSend" => (rawDataKey[w] # NoKey /\ Validate(rawDataKey[w]))
            /\ wpc[w] = "imgSend" => (imgKey[w] # NoKey /\ ValidateImgKey(imgKey[w])))
    /\ [][\A w \in Threads : Publishes(w) =>
            /\ Published = <<rawDataKey[w], imgKey[w]>>
            /\ rawDataKey'[w] = rawDataKey[w] /\ imgKey'[w] = imgKey[w]]_vars

\* A worker that is still running published both of its keys, and no other
\* worker holds a key.
C23_Witness ==
    \E w \in Threads :
        /\ resultChannel = << <<RawKey, ImgKey>> >>
        /\ rawDataKey[w] = RawKey /\ imgKey[w] = ImgKey
        /\ wpc[w] = "select"
        /\ \A v \in Threads \ {w} : rawDataKey[v] = NoKey /\ imgKey[v] = NoKey
        /\ ~memClosed

\* ---- C24
\* The positions of a worker inside SearchAllDerivedKeys.
InScan == {"pollCtx", "pollAll", "window", "validate"}

\* A candidate is handed to ValidateDerivedKey in this step.
SubmitsDerived == validated'.derived # validated.derived

\* C24: with AllDerivedKeysFound true, (1) a worker that is not inside the
\* scan does not enter it: the chunk it checks next has its scan left out;
\* (2) a scan in progress, of a worker or of a direct caller, that comes to
\* its poll of the validator returns there; (3) so a candidate is handed to
\* ValidateDerivedKey only by a scan that has not reached its next poll, and
\* a direct scan hands over at most the windows up to that poll.
C24_StopsWhenAllFound ==
    /\ [][AllDerivedKeysFound =>
            /\ \A w \in Threads :
                  /\ wpc[w] \notin InScan => wpc'[w] \notin InScan
                  /\ (wpc[w] = "derived" /\ wpc'[w] # wpc[w])
                        => dscan'[wmem[w].id] = "skipped"
                  /\ (wpc[w] = "pollAll" /\ wpc'[w] # wpc[w])
                        => (wpc'[w] \notin InScan /\ dscan'[wmem[w].id] = "allfound")
            /\ (sc.pc = "poll" /\ sc' # sc) => sc'.pc = "ret"
            /\ (sc.pc \notin {"poll", "window"}) => sc'.pc # "window"
            /\ SubmitsDerived =>
                  \/ \E w \in Threads : wpc[w] = "window" /\ wpc'[w] = "validate"
                  \/ sc.pc = "window" /\ sc.sincePoll < PollWindows]_vars
    /\ [](sc.sincePoll <= PollWindows)

\* A direct scan found the last key in its first window, handed the other
\* 1023 windows before the next poll to the validator, and returned at the poll.
C24_Witness ==
    /\ AllDerivedKeysFound
    /\ sc.mem = LongKeyId
    /\ sc.pc = "ret"
    /\ sc.pos = PollInterval
    /\ sc.count = 1
    /\ sc.sincePoll = PollWindows
    /\ ~parentCancelled

\* ---- C25
\* The call of goroutine t has returned true.
Succeeded(t) == vc[t].pc = "ret" /\ vc[t].ret

BlockedOnSend(w) == wpc[w] \in {"rawSend", "imgSend"}

\* C26: with the producer terminating and fair scheduling, a started Extract
\* returns in the end, every worker returns in the end, and after Extract
\* has returned no worker stays in a send to the result channel: from then
\* on there comes a state after which no worker is in a send any more.
C26_NeverBlocksForever ==
    /\ created ~> Returned
    /\ created ~> AllWorkersReturned
    /\ (created /\ Returned) ~> [](\A w \in Threads : ~BlockedOnSend(w))

\* Extract has returned while a worker stands in a send to the full result
\* channel, which nobody will receive from any more.
C26_Witness ==
    /\ Returned
    /\ Len(resultChannel) = ResultChanCap
    /\ \E w \in Threads : BlockedOnSend(w)

\* ---- C27
\* No cancellation so far: the caller's context is live, and searchCtx was
\* cancelled by nothing but the return on the closed result channel.
NoCancellation == ~parentCancelled /\ retPath \in {"none", "closed"}

\* Every key a worker's search returned as found is in Extract's hands.
AllFoundReceived ==
    \A w \in Threads :
        /\ rawDataKey[w] # NoKey => finalRawDataKey = rawDataKey[w]
        /\ imgKey[w] # NoKey => finalImgKey = imgKey[w]

\* C27 (as stated): with no cancellation, once the result channel is closed
\* every key a worker found has been received by Extract.
C27_ReceivedBeforeClose == (NoCancellation /\ resClosed) => AllFoundReceived

\* C27 (amended): with no cancellation, every key a worker found has been
\* received when Extract reads the result channel as closed (a message may
\* still be buffered when close is called, and is received after it); Extract
\* then returns the image key whenever a worker found one, and the raw key as
\* dataKey whenever a worker found one and no derived key exists.
C27_ReceivedBeforeClosedSeen ==
    /\ (NoCancellation /\ RecvClosed(resClosed, resultChannel)) => AllFoundReceived
    /\ ClosedUncancelled =>
          \A w \in Threads :
              /\ imgKey[w] # NoKey => ret.imgKey = imgKey[w]
              /\ (rawDataKey[w] # NoKey /\ retFound = {}) =>
                    ret.dataKey = KeyString(rawDataKey[w])

\* Extract has returned on the closed channel, uncancelled and with no
\* derived key, and returns the key a worker found.
C27_Witness ==
    /\ ClosedUncancelled
    /\ retFound = {}
    /\ \E w \in Threads :
          (rawDataKey[w] # NoKey /\ ret.dataKey = KeyString(rawDataKey[w]))
          \/ (imgKey[w] # NoKey /\ ret.imgKey = imgKey[w])

\* ---- C28
\* The key was handed to the validation of its kind in this run, and is one
\* that validation accepts.
AcceptedRaw(key) == BagIn(key, validated.raw) /\ Validate(key)

AcceptedImg(key) == BagIn(key, validated.img) /\ ValidateImgKey(key)

AcceptedDerived(key) ==
    /\ BagIn(key, validated.derived)
    /\ \E i \in DBIndices(nExtra) : DvValidateDerivedKey(i, key)

\* The keys in a "derived:" dataKey.
DerivedListed(dataKey) == {dataKey[i] : i \in 2..Len(dataKey)}

\* C28: every non-empty key Extract returns was accepted by the validator in
\* the run (the raw key by Validate, the image key by ValidateImgKey, each
\* key of the "derived:" list by ValidateDerivedKey), and every key in a
\* message of the result channel, in a worker's or Extract's hands, or in
\* foundDerivedKeys was accepted likewise.
C28_OnlyValidatedKeys ==
    /\ \A n \in 1..Len(resultChannel) :
          /\ resultChannel[n][1] # NoKey => AcceptedRaw(resultChannel[n][1])
          /\ resultChannel[n][2] # NoKey => AcceptedImg(resultChannel[n][2])
    /\ \A w \in Threads :
          /\ rawDataKey[w] # NoKey => AcceptedRaw(rawDataKey[w])
          /\ imgKey[w] # NoKey => AcceptedImg(imgKey[w])
    /\ finalRawDataKey # NoKey => AcceptedRaw(finalRawDataKey)
    /\ finalImgKey # NoKey => AcceptedImg(finalImgKey)
    /\ \A key \in foundDerivedKeys : AcceptedDerived(key)
    /\ Returned =>
          /\ ret.imgKey # NoKey => AcceptedImg(ret.imgKey)
          /\ IF ret.dataKey # <<>> /\ ret.dataKey[1] = "derived:"
             THEN \A key \in DerivedListed(ret.dataKey) : AcceptedDerived(key)
             ELSE \A n \in 1..Len(ret.dataKey) : AcceptedRaw(ret.dataKey[n])

\* Extract has returned a derived key and an image key, and the candidates
\* that failed their validation in the run are in neither.
C28_Witness ==
    /\ Returned
    /\ ret.err = ErrNil
    /\ ret.imgKey = ImgKey
    /\ ret.dataKey = DerivedString(<<DerivedKeyOf(PrimaryIdx)>>)
    /\ BagIn(JunkKey, validated.derived)
    /\ BagIn(JunkImg, validated.img)

\* ---- C29
\* The step is a call of Validate (raw) or of ValidateImgKey.
RawOrImgValidation == validated.raw' # validated.raw \/ validated.img' # validated.img

\* C29: no step unmarks an index of matchedDBs or lowers matchedCount, so
\* AllDerivedKeysFound, once true, is true after every later step; and a
\* step that calls Validate or ValidateImgKey leaves both as they were.
C29_MatchedMonotone ==
    [][/\ matchedDBs \subseteq matchedDBs'
       /\ matchedCount' >= matchedCount
       /\ AllDerivedKeysFound => AllDerivedKeysFound'
       /\ RawOrImgValidation => UNCHANGED <<matchedDBs, matchedCount>>]_vars

\* Every database is matched, and after that a worker is about to hand a
\* candidate to Validate or ValidateImgKey.
C29_Witness ==
    /\ AllDerivedKeysFound
    /\ nExtra = 1
    /\ matchedDBs = DBIndices(nExtra)
    /\ \E w \in Threads : wpc[w] \in {"rawCand", "imgCand"}

\* ---- C30
\* The direct call is inside the loop of SearchKey or of SearchImgKey.
InSearch == sc.pc \in {"anchor", "imgAnchor"}

\* len(memory) of the chunk the call searches.
ChunkLen ==
    IF sc.fn = "SearchKey" THEN MemLen(KeyMemories[sc.mem])
    ELSE IF sc.fn = "SearchImgKey" THEN MemLen(ImgMemories[sc.mem])
    ELSE 0

\* C30: in SearchKey and in SearchImgKey, from one turn of a pattern's loop
\* to the next the search index strictly decreases (for the zero-run pattern
\* too), it stays within the chunk, and a pattern's loop makes at most
\* len(chunk) turns: with a turn still to come, fewer than len(chunk) were made.
C30_IndexDecreases ==
    /\ [](InSearch => (sc.index \in 0..ChunkLen /\ sc.iters < ChunkLen))
    /\ [](sc.fn \in {"SearchKey", "SearchImgKey"} => sc.iters <= ChunkLen)
    /\ [][(InSearch /\ InSearch' /\ sc'.pat = sc.pat /\ sc'.iters # sc.iters) =>
              sc'.index < sc.index]_vars

\* SearchImgKey is at its third zero run or further on, after a SearchKey
\* call that went through both of its patterns without a key.
C30_Witness ==
    /\ sc.fn = "SearchImgKey"
    /\ sc.pc = "imgAnchor"
    /\ sc.iters >= 2
    /\ sc.index > 0
    /\ slast.fn = "SearchKey"
    /\ slast.pc = "idle"
    /\ slast.pat = Len(V4KeyPatterns)
    /\ ~slast.rfound
    /\ ~parentCancelled

\* ---- C31
\* A call of StartService is in progress or has returned.
InStartService == mgr.svc = "StartService"

StartReturned == InStartService /\ mgr.spc = "ret"

\* The names of the service calls made so far, in order.
CallsMade == [n \in 1..Len(mgr.log) |-> mgr.log[n][1]]

\* C31: StartService starts the database before the HTTP service; when the
\* database fails to start, the HTTP service is not started, the error is
\* returned and HTTPEnabled is as the call found it; when the HTTP service
\* fails to start, db.Stop() is called (the database is down when that call
\* returned nil), the error is returned and HTTPEnabled is as the call found
\* it; HTTPEnabled is set to true only after both services started, and nil
\* is returned only then.
C31_StartServiceOrder ==
    InStartService =>
      /\ \A n \in 1..Len(CallsMade) :
            CallsMade[n] = "http.Start" =>
                n = 2 /\ mgr.log[1] = <<"db.Start", TRUE>>
      /\ mgr.HTTPEnabled # mgr.enabled0 =>
            /\ mgr.HTTPEnabled
            /\ mgr.log = << <<"db.Start", TRUE>>, <<"http.Start", TRUE>> >>
      /\ StartReturned =>
            /\ mgr.serr \in {"nil", "db.Start", "http.Start"}
            /\ mgr.serr = "db.Start" =>
                  /\ mgr.log = << <<"db.Start", FALSE>> >>
                  /\ mgr.HTTPEnabled = mgr.enabled0
            /\ mgr.serr = "http.Start" =>
                  /\ CallsMade = <<"db.Start", "http.Start", "db.Stop">>
                  /\ mgr.log[1][2] /\ ~mgr.log[2][2]
                  /\ mgr.log[3][2] => ~mgr.dbUp
                  /\ mgr.HTTPEnabled = mgr.enabled0
            /\ mgr.serr = "nil" =>
                  /\ mgr.log = << <<"db.Start", TRUE>>, <<"http.Start", TRUE>> >>
                  /\ mgr.dbUp /\ mgr.httpUp
                  /\ mgr.HTTPEnabled

\* StartService, called with HTTPEnabled false, has returned the error of
\* the HTTP service after it stopped the database it had started.
C31_Witness ==
    /\ StartReturned
    /\ mgr.serr = "http.Start"
    /\ ~mgr.enabled0
    /\ ~mgr.HTTPEnabled
    /\ mgr.log = << <<"db.Start", TRUE>>, <<"http.Start", FALSE>>, <<"db.Stop", TRUE>> >>
    /\ ~mgr.dbUp

====
